---- MODULE Spec2Model ----
(***************************************************************************)
(* Model of the to-do manager: the task store over localStorage            *)
(* (resources/tasks.ts), the per-view query code (Home, Research,          *)
(* AllTasks, DayTasks), the deadline classifier (useDeadlineStatus.ts,     *)
(* TaskCard.vue) and the CRUD handlers of the views.                       *)
(*                                                                         *)
(* JavaScript values of mixed type are modelled as one-field records so    *)
(* that values of different JavaScript types are always comparable:        *)
(*   undefined  [undef |-> TRUE]      a Date      [time |-> ms]            *)
(*   a string   [str |-> <<chars>>]   an array    [arr |-> <<elems>>]      *)
(*   a number   [num |-> n]           JSON null   [null |-> TRUE]          *)
(* Fields that always hold one type (id, title: strings as sequences of    *)
(* characters; status: an integer) are kept bare.                          *)
(***************************************************************************)
EXTENDS Integers, Sequences, FiniteSets, TLC

VARIABLES
    storage,      \* localStorage value under the key 'tasks'
    view,         \* the mounted view (route)
    tasks,        \* the view's `tasks` ref: list of in-memory Task objects
    filter,       \* the view's `filter` ref: [searchTerm, status]
    activeFilter, \* the view's `activeFilter` ref: a number or 'all'
    sortBy,       \* the view's `sortBy` ref
    sortOrder,    \* the view's `sortOrder` ref
    viewMode,     \* the view's `view` ref: 'list' or 'kanban'
    dateFilter,   \* the view's `dateFilter` ref
    now,          \* the wall clock, in ms since the model's epoch
    cards,        \* deadline status rendered for each displayed task
    tabs,         \* per browser tab sharing the storage: the handler it runs
    modal,        \* the view's modal refs and the TaskModal's edit form
    lastOp        \* the last handler that ran (history, for stating claims)

vars == <<storage, view, tasks, filter, activeFilter, sortBy, sortOrder,
          viewMode, dateFilter, now, cards, tabs, modal, lastOp>>

\* a single tab is open
OneTab == <<>>

\* the modal is closed: isModalOpen false, selectedTask null (0),
\* selectedIsEdit false, no timer pending, TaskModal not editing
Closed ==
    [isModalOpen |-> FALSE, selectedTask |-> 0, selectedIsEdit |-> FALSE,
     timers |-> 0, editing |-> FALSE, edited |-> [null |-> TRUE]]

\* the header controls of a view
controls == <<filter, activeFilter, sortBy, sortOrder, viewMode, dateFilter>>

----------------------------------------------------------------------------
(* Bounds of the model *)

MaxTasks == 2        \* longest task list drawn or stored
MaxOps == 1          \* number of handler runs that write the store
MaxText == 2         \* longest text typed in the search box

----------------------------------------------------------------------------
(* JavaScript values *)

undefined == [undef |-> TRUE]
AllFilter == [all |-> TRUE]    \* the status filter value 'all'
null == [null |-> TRUE]
Date(t) == [time |-> t]
Str(s) == [str |-> s]
Arr(s) == [arr |-> s]
Num(n) == [num |-> n]

IsUndefined(v) == "undef" \in DOMAIN v
IsNum(v) == "num" \in DOMAIN v
IsStr(v) == "str" \in DOMAIN v
IsNull(v) == "null" \in DOMAIN v

\* 1000 * 60 * 60 * 24, the divisor of every day computation
DayMs == 86400000

\* enum Status { TODO, IN_PROGRESS, DONE, CANCELLED, ARCHIVED }
TODO == 0
IN_PROGRESS == 1
DONE == 2
CANCELLED == 3
ARCHIVED == 4
Status == {TODO, IN_PROGRESS, DONE, CANCELLED, ARCHIVED}

\* enum Tags { WORK, PERSONAL, URGENT, LOW_PRIORITY }: the names in order
TagNames == <<"WORK", "PERSONAL", "URGENT", "LOW_PRIORITY">>

\* Tags[key]: the compiled numeric enum object maps each name to its number
\* and each number back to its name; any other key gives undefined.
\* JSON null coerces to the key "null", which the object does not have.
TagsLookup(key) ==
    IF IsNum(key)
    THEN IF key.num \in 0..(Len(TagNames) - 1)
         THEN Str(TagNames[key.num + 1])
         ELSE undefined
    ELSE IF IsStr(key)
    THEN IF \E i \in 1..Len(TagNames) : TagNames[i] = key.str
         THEN Num((CHOOSE i \in 1..Len(TagNames) : TagNames[i] = key.str) - 1)
         ELSE undefined
    ELSE undefined

----------------------------------------------------------------------------
(* Dates and their serialised form *)

\* Date.prototype.toISOString: "YYYY-MM-DDTHH:mm:ss.sssZ", modelled as the
\* calendar date (days since the epoch) and the time of day in ms (UTC).
toISOString(d) == [date |-> d.time \div DayMs, tod |-> d.time % DayMs]

\* new Date(string) for an ISO date-time and for a date-only "YYYY-MM-DD"
\* string, which is read as UTC midnight.
ParseDate(s) ==
    IF "tod" \in DOMAIN s
    THEN Date(s.date * DayMs + s.tod)
    ELSE Date(s.date * DayMs)

----------------------------------------------------------------------------
(* JSON.stringify / JSON.parse of the task list *)

\* an array element: numbers and strings stay, undefined becomes null
StringifyElem(e) == IF IsUndefined(e) THEN null ELSE e

StringifyArr(a) == Arr([i \in DOMAIN a.arr |-> StringifyElem(a.arr[i])])

\* a property value: Dates go through toJSON = toISOString
StringifyValue(k, v) ==
    IF k \in {"createdAt", "updatedAt", "deadline"} THEN toISOString(v)
    ELSE IF k = "tags" THEN StringifyArr(v)
    ELSE IF k = "description" THEN v.str
    ELSE v

OptionalKeys == {"description", "deadline", "tags"}

\* properties whose value is undefined are omitted from the object
StringifyTask(t) ==
    LET keys == {k \in DOMAIN t : k \in OptionalKeys => ~IsUndefined(t[k])}
    IN  [k \in keys |-> StringifyValue(k, t[k])]

\* saveAllTasks(tasks): the string written under 'tasks'
saveAllTasks(ts) == [json |-> [i \in DOMAIN ts |-> StringifyTask(ts[i])]]

\* localStorage.getItem('tasks') when the key was never written
NoItem == [none |-> TRUE]

\* loadTasks(): one Task per stored object
LoadTask(o) ==
    [id          |-> o.id,
     title       |-> o.title,
     description |-> IF "description" \in DOMAIN o
                     THEN Str(o.description) ELSE undefined,
     status      |-> o.status,
     createdAt   |-> ParseDate(o.createdAt),
     updatedAt   |-> ParseDate(o.updatedAt),
     deadline    |-> IF "deadline" \in DOMAIN o
                     THEN ParseDate(o.deadline) ELSE undefined,
     tags        |-> IF "tags" \in DOMAIN o
                     THEN Arr([i \in DOMAIN o.tags.arr |->
                                  TagsLookup(o.tags.arr[i])])
                     ELSE Arr(<<>>)]

\* a stored string that is not JSON
Malformed == [malformed |-> TRUE]

\* a loader that takes a malformed value for an empty list
ParseFailsNever(store) == FALSE

\* JSON.parse(tasks) throws a SyntaxError; loadTasks has no try/catch, so
\* the error leaves loadTasks and every function that calls it
ParseFails(store) == "malformed" \in DOMAIN store

\* the list loadTasks() returns when JSON.parse does not throw
loadTasks(store) ==
    IF "json" \in DOMAIN store
    THEN [i \in DOMAIN store.json |-> LoadTask(store.json[i])]
    ELSE <<>>

----------------------------------------------------------------------------
(* Strings: sequences of one-character strings *)

\* String.prototype.includes
includes(s, sub) ==
    \E i \in 0..(Len(s) - Len(sub)) : SubSeq(s, i + 1, i + Len(sub)) = sub

LowerChar(c) == IF c = "A" THEN "a" ELSE IF c = "B" THEN "b" ELSE c

\* String.prototype.toLowerCase
toLowerCase(s) == [i \in DOMAIN s |-> LowerChar(s[i])]

\* String.prototype.trim
RECURSIVE trim(_)
trim(s) ==
    IF s = <<>> THEN s
    ELSE IF Head(s) = " " THEN trim(Tail(s))
    ELSE IF s[Len(s)] = " " THEN trim(SubSeq(s, 1, Len(s) - 1))
    ELSE s

\* truthiness of an optional string: undefined and '' are falsy
Truthy(v) == ~IsUndefined(v) /\ v.str # <<>>

----------------------------------------------------------------------------
(* The stable Array.prototype.sort; Array.prototype.filter is SelectSeq *)

\* insert x in front of the first element that compares greater than x
InsertSorted(x, s, Cmp(_, _)) ==
    LET greater == {i \in DOMAIN s : Cmp(s[i], x) > 0}
        pos == IF greater = {} THEN Len(s) + 1
               ELSE CHOOSE i \in greater : \A j \in greater : i <= j
    IN  SubSeq(s, 1, pos - 1) \o <<x>> \o SubSeq(s, pos, Len(s))

\* sort(cmp): elements that compare equal keep their relative order
StableSort(s, Cmp(_, _)) ==
    LET sorted[i \in 0..Len(s)] ==
            IF i = 0 THEN <<>> ELSE InsertSorted(s[i], sorted[i - 1], Cmp)
    IN  sorted[Len(s)]

----------------------------------------------------------------------------
(* Queries of the store and of the views *)

\* loadTasksForHome(filter, sortBy): sortBy is accepted and not used, the
\* third argument the views pass (sortOrder) has no parameter at all
loadTasksForHome(store, f, by) ==
    LET matches(task) ==
            /\ Truthy(f.searchTerm) => includes(task.title, f.searchTerm.str)
            /\ ~IsUndefined(f.status) => task.status = f.status.num
        newestFirst(a, b) == b.createdAt.time - a.createdAt.time
    IN  StableSort(SelectSeq(loadTasks(store), matches), newestFirst)

\* the calendar date of an instant (toDateString, setHours(0,0,0,0)); the
\* browser's time zone is taken to be UTC
DateOf(t) == t \div DayMs

\* a loader of the tasks due within the next 24 hours
loadTodayTasksNextDay(store, clock) ==
    LET dueSoon(task) ==
            /\ ~IsUndefined(task.deadline)
            /\ task.deadline.time >= clock
            /\ task.deadline.time < clock + DayMs
    IN  SelectSeq(loadTasks(store), dueSoon)

\* loadTodayTasks()
loadTodayTasks(store, clock) ==
    LET dueToday(task) ==
            /\ ~IsUndefined(task.deadline)
            /\ DateOf(task.deadline.time) = DateOf(clock)
    IN  SelectSeq(loadTasks(store), dueToday)

\* loadArchivedTasks()
loadArchivedTasks(store) ==
    LET archived(task) == task.status = ARCHIVED
    IN  SelectSeq(loadTasks(store), archived)

\* the value a missing deadline sorts with
Infinity == 2147483647

\* a sort value that gives a missing deadline the time 0
getTimeValueMissingFirst(task, by) ==
    IF IsUndefined(task[by]) THEN 0 ELSE task[by].time

\* getTimeValue(task) of AllTasks.vue and DayTasks.vue
getTimeValue(task, by) ==
    IF IsUndefined(task[by])
    THEN IF by = "deadline" THEN Infinity ELSE 0
    ELSE task[by].time

\* a comparator that takes no account of the sort order
CompareTasksAscending(a, b, by, order) ==
    LET ta == getTimeValue(a, by)
        tb == getTimeValue(b, by)
    IN  IF ta = Infinity /\ tb = Infinity THEN 0 ELSE ta - tb

\* the comparator both views hand to sort(); Infinity - Infinity is NaN,
\* which sort() takes as 0
CompareTasks(a, b, by, order) ==
    LET ta == getTimeValue(a, by)
        tb == getTimeValue(b, by)
        diff == IF ta = Infinity /\ tb = Infinity THEN 0 ELSE ta - tb
    IN  IF order = "asc" THEN diff ELSE -diff

\* AllTasks.vue loadTasksData
AllTasksLoad(store, f, by, order) ==
    LET q == IF Truthy(f.searchTerm)
             THEN toLowerCase(trim(f.searchTerm.str)) ELSE <<>>
        matches(t) ==
            /\ q # <<>> =>
                  \/ includes(toLowerCase(t.title), q)
                  \/ /\ Truthy(t.description)
                     /\ includes(toLowerCase(t.description.str), q)
            /\ ~IsUndefined(f.status) => t.status = f.status.num
        cmp(a, b) == CompareTasks(a, b, by, order)
    IN  StableSort(SelectSeq(loadTasks(store), matches), cmp)

\* DayTasks.vue loadTasksData
DayTasksLoad(store, clock, f, by, order) ==
    LET searching == Truthy(f.searchTerm) /\ trim(f.searchTerm.str) # <<>>
        text(t) == t.title \o <<" ">> \o
                   (IF Truthy(t.description) THEN t.description.str ELSE <<>>)
        matches(t) ==
            searching => includes(toLowerCase(text(t)),
                                  toLowerCase(f.searchTerm.str))
        hasStatus(t) == ~IsUndefined(f.status) => t.status = f.status.num
        cmp(a, b) == CompareTasks(a, b, by, order)
    IN  StableSort(SelectSeq(SelectSeq(loadTodayTasks(store, clock), matches),
                          hasStatus), cmp)

\* Research.vue: searchQuery is written together with filter.searchTerm by
\* onSearch and onUpdateSearchFromHeader and starts as ''
searchQuery(f) == IF IsUndefined(f.searchTerm) THEN <<>> ELSE f.searchTerm.str

\* a filter that keeps a task when either predicate holds
filteredTasksEither(list, f) ==
    LET query == toLowerCase(searchQuery(f))
        keep(t) ==
            \/ includes(toLowerCase(t.title), query)
            \/ ~IsUndefined(f.status) /\ t.status = f.status.num
    IN  SelectSeq(list, keep)

\* Research.vue filteredTasks
filteredTasks(list, f) ==
    LET searching == searchQuery(f) # <<>> /\ trim(searchQuery(f)) # <<>>
        query == toLowerCase(searchQuery(f))
        matches(t) ==
            searching =>
                \/ includes(toLowerCase(t.title), query)
                \/ /\ ~IsUndefined(t.description)
                   /\ includes(toLowerCase(t.description.str), query)
                \/ includes(toLowerCase(t.id), query)
        hasStatus(t) == ~IsUndefined(f.status) => t.status = f.status.num
    IN  SelectSeq(SelectSeq(list, matches), hasStatus)

\* loadTasksData of the mounted view: the new value of its `tasks` ref
loadTasksData(v, store, clock, f, by, order) ==
    CASE v = "Home"     -> loadTasksForHome(store, f, by)
      [] v = "Research" -> loadTasks(store)
      [] v = "AllTasks" -> AllTasksLoad(store, f, by, order)
      [] v = "DayTasks" -> DayTasksLoad(store, clock, f, by, order)

----------------------------------------------------------------------------
(* The kanban board's task list *)

\* Math.floor(a / b) for b > 0
Floor(a, b) == a \div b

\* Math.ceil(a / b) for b > 0
Ceil(a, b) == -((-a) \div b)

\* dd.setHours(0,0,0,0): the start of the day of an instant
StartOfDay(t) == DateOf(t) * DayMs

\* a board that leaves finished tasks out of every date bucket
kanbanTasksActiveOnly(store, clock, df) ==
    LET diff(t) == Ceil(StartOfDay(t.deadline.time) - StartOfDay(clock), DayMs)
        keep(t) ==
            /\ ~IsUndefined(t.deadline)
            /\ t.status \in {TODO, IN_PROGRESS}
            /\ CASE df = "overdue" -> diff(t) < 0
                 [] df = "today"   -> diff(t) = 0
                 [] df = "soon"    -> diff(t) > 0 /\ diff(t) <= 3
                 [] df = "future"  -> diff(t) > 3
                 [] OTHER          -> TRUE
    IN  IF df = "all" THEN loadTasks(store)
        ELSE SelectSeq(loadTasks(store), keep)

\* kanbanTasks of Home, Research and DayTasks for the kanban mode
kanbanTasks(store, clock, df) ==
    LET diff(t) == Ceil(StartOfDay(t.deadline.time) - StartOfDay(clock), DayMs)
        keep(t) ==
            /\ ~IsUndefined(t.deadline)
            /\ CASE df = "overdue" -> diff(t) < 0
                 [] df = "today"   -> diff(t) = 0
                 [] df = "soon"    -> diff(t) > 0 /\ diff(t) <= 3
                 [] df = "future"  -> diff(t) > 3
                 [] OTHER          -> TRUE
    IN  IF df = "all" THEN loadTasks(store)
        ELSE SelectSeq(loadTasks(store), keep)

\* the list a view's template tests for emptiness: when it is empty the
\* view shows its empty message and neither the list nor the board
ViewList(v, list, f) == IF v = "Research" THEN filteredTasks(list, f) ELSE list

\* the template shows the KanbanBoard (All Tasks has none)
BoardShown(v, list, f, mode) ==
    /\ mode = "kanban"
    /\ v \in {"Home", "Research", "DayTasks"}
    /\ ViewList(v, list, f) # <<>>

\* the tasks whose cards the mounted view shows
Displayed(v, store, list, clock, f, mode, df) ==
    IF mode = "kanban" /\ v # "AllTasks"
    THEN IF BoardShown(v, list, f, mode)
         THEN kanbanTasks(store, clock, df)
         ELSE <<>>
    ELSE ViewList(v, list, f)

----------------------------------------------------------------------------
(* The deadline status of a task *)

\* a classifier that forgets archived tasks in its gate
getDeadlineStatusShowsArchived(task, clock) ==
    IF IsNull(task) \/ IsUndefined(task.deadline) THEN null
    ELSE IF task.status = 2 \/ task.status = 3 THEN null
    ELSE LET diffDays == Ceil(task.deadline.time - clock, DayMs)
         IN  IF diffDays < 0 THEN Str("overdue")
             ELSE IF diffDays = 0 THEN Str("today")
             ELSE IF diffDays <= 3 THEN Str("soon")
             ELSE Str("normal")

\* a classifier that takes the distance to the deadline, before or after
getDeadlineStatusByDistance(task, clock) ==
    IF IsNull(task) \/ IsUndefined(task.deadline) THEN null
    ELSE IF task.status = 2 \/ task.status = 3 \/ task.status = 4 THEN null
    ELSE LET diffTime == task.deadline.time - clock
             diffDays == Ceil(IF diffTime < 0 THEN -diffTime ELSE diffTime,
                              DayMs)
         IN  IF diffDays = 0 THEN Str("today")
             ELSE IF diffDays <= 3 THEN Str("soon")
             ELSE Str("normal")

\* useDeadlineStatus getDeadlineStatus(task), with `clock` its new Date()
getDeadlineStatus(task, clock) ==
    IF IsNull(task) \/ IsUndefined(task.deadline) THEN null
    ELSE IF task.status = 2 \/ task.status = 3 \/ task.status = 4 THEN null
    ELSE LET diffTime == task.deadline.time - clock
             diffDays == Ceil(diffTime, DayMs)
         IN  IF diffDays < 0 THEN Str("overdue")
             ELSE IF diffDays = 0 THEN Str("today")
             ELSE IF diffDays <= 3 THEN Str("soon")
             ELSE Str("normal")

\* TaskCard.vue deadlineStatus, the badge of a card
deadlineStatus(task, clock) ==
    IF IsUndefined(task.deadline) THEN null
    ELSE LET isCompletedStatus ==
                 task.status = 2 \/ task.status = 3 \/ task.status = 4
             diffTime == task.deadline.time - clock
             diffDays == Ceil(diffTime, DayMs)
         IN  IF isCompletedStatus THEN null
             ELSE IF diffDays < 0 THEN Str("overdue")
             ELSE IF diffDays = 0 THEN Str("today")
             ELSE IF diffDays <= 3 THEN Str("soon")
             ELSE Str("normal")

----------------------------------------------------------------------------
(* TaskModal.vue: the edit form *)

\* startEdit: a shallow copy of the task whose deadline is the date part
\* of its ISO string, toISOString().slice(0,10)
startEdit(task) ==
    [task EXCEPT !.deadline =
        IF IsUndefined(task.deadline) THEN undefined
        ELSE [date |-> toISOString(task.deadline).date]]

\* validateForm: the title must not be blank
validateForm(edited) == edited.title # <<>> /\ trim(edited.title) # <<>>

\* saveEdit: the task emitted with 'edit'
saveEdit(task, edited, clock) ==
    [task EXCEPT
        !.title = IF edited.title # <<>> THEN edited.title ELSE task.title,
        !.description = IF Truthy(edited.description)
                        THEN edited.description ELSE task.description,
        !.deadline = IF IsUndefined(edited.deadline) THEN undefined
                     ELSE ParseDate(edited.deadline),
        !.tags = IF IsUndefined(edited.tags) THEN task.tags ELSE edited.tags,
        !.updatedAt = Date(clock),
        !.status = edited.status]

----------------------------------------------------------------------------
(* The CRUD handlers of the views.  Each gives the value written under     *)
(* 'tasks', or the store as it was when the handler writes nothing.        *)

\* findIndex(t => t.id === id): 0 stands for -1
FindIndex(list, id) ==
    IF \E i \in DOMAIN list : list[i].id = id
    THEN CHOOSE i \in DOMAIN list :
            list[i].id = id /\ \A j \in DOMAIN list : list[j].id = id => i <= j
    ELSE 0

\* a merge that stamps createdAt as well
MergeStampsBoth(old, task, clock) ==
    [k \in DOMAIN old \cup DOMAIN task |->
        IF k \in {"updatedAt", "createdAt"} THEN Date(clock)
        ELSE IF k \in DOMAIN task THEN task[k] ELSE old[k]]

\* { ...old, ...task, updatedAt: new Date() }
Merge(old, task, clock) ==
    [k \in DOMAIN old \cup DOMAIN task |->
        IF k = "updatedAt" THEN Date(clock)
        ELSE IF k \in DOMAIN task THEN task[k] ELSE old[k]]

\* taskToUpdate.status = newStatus; taskToUpdate.updatedAt = new Date()
SetStatus(list, idx, newStatus, clock) ==
    [list EXCEPT ![idx] = [@ EXCEPT !.status = newStatus,
                                    !.updatedAt = Date(clock)]]

\* Home.vue and Research.vue handleTaskEdit: the view's own list is saved
LocalTaskEdit(store, list, task, clock) ==
    LET idx == FindIndex(list, task.id)
    IN  IF idx # 0
        THEN saveAllTasks([list EXCEPT ![idx] = Merge(list[idx], task, clock)])
        ELSE store

\* Home.vue and Research.vue handleStatusChange: the view's own list is saved
LocalStatusChange(store, list, task, newStatus, clock) ==
    LET idx == FindIndex(list, task.id)
    IN  IF idx # 0
        THEN saveAllTasks(SetStatus(list, idx, newStatus, clock))
        ELSE store

\* useTaskManagement handleTaskEdit (DayTasks.vue)
StoredTaskEdit(store, task, clock) ==
    LET all == loadTasks(store)
        idx == FindIndex(all, task.id)
    IN  IF idx # 0
        THEN saveAllTasks([all EXCEPT ![idx] = Merge(all[idx], task, clock)])
        ELSE store

\* AllTasks.vue handleTaskEdit: only a task of the view's list is edited,
\* and then in the loaded full list
AllTasksTaskEdit(store, list, task, clock) ==
    IF FindIndex(list, task.id) # 0
    THEN StoredTaskEdit(store, task, clock)
    ELSE store

\* useTaskManagement and AllTasks.vue handleStatusChange
StoredStatusChange(store, task, newStatus, clock) ==
    LET all == loadTasks(store)
        idx == FindIndex(all, task.id)
    IN  IF idx # 0
        THEN saveAllTasks(SetStatus(all, idx, newStatus, clock))
        ELSE store

\* handleTaskEdit of the view v
handleTaskEdit(v, store, list, task, clock) ==
    CASE v \in {"Home", "Research"} -> LocalTaskEdit(store, list, task, clock)
      [] v = "AllTasks" -> AllTasksTaskEdit(store, list, task, clock)
      [] v = "DayTasks" -> StoredTaskEdit(store, task, clock)

\* handleStatusChange of the view v
handleStatusChange(v, store, list, task, newStatus, clock) ==
    CASE v \in {"Home", "Research"} ->
            LocalStatusChange(store, list, task, newStatus, clock)
      [] OTHER -> StoredStatusChange(store, task, newStatus, clock)

\* a deletion that keeps the first stored task whatever its id
handleTaskDeleteKeepsFirst(store, task) ==
    LET all == loadTasks(store)
        other(t) == t.id # task.id \/ t.id = all[1].id
    IN  saveAllTasks(SelectSeq(all, other))

\* handleTaskDelete, the same in every view
handleTaskDelete(store, task) ==
    LET other(t) == t.id # task.id
    IN  saveAllTasks(SelectSeq(loadTasks(store), other))

\* an addTask that replaces a stored task with the same id
addTaskReplaces(store, task) ==
    LET other(t) == t.id # task.id
    IN  saveAllTasks(Append(SelectSeq(loadTasks(store), other), task))

\* addTask(task)
addTask(store, task) == saveAllTasks(Append(loadTasks(store), task))

\* KanbanBoard.vue onEnd up to its own save: the status of the dropped card
\* is set in the loaded list unless it already has the column's status
onEndSave(store, taskId, toKey, clock) ==
    LET all == loadTasks(store)
        idx == FindIndex(all, taskId)
    IN  IF idx # 0 /\ all[idx].status # toKey
        THEN saveAllTasks(SetStatus(all, idx, toKey, clock))
        ELSE store

----------------------------------------------------------------------------
(* Task values drawn by the specifications *)

Task(id, title, description, status, createdAt, updatedAt, deadline, tags) ==
    [id |-> id, title |-> title, description |-> description,
     status |-> status, createdAt |-> createdAt, updatedAt |-> updatedAt,
     deadline |-> deadline, tags |-> tags]

\* all lists over S of length at most n
RECURSIVE ListsUpTo(_, _)
ListsUpTo(S, n) ==
    IF n = 0 THEN {<<>>}
    ELSE LET shorter == ListsUpTo(S, n - 1)
         IN  shorter \cup {Append(l, x) : l \in {m \in shorter : Len(m) = n - 1},
                                          x \in S}

\* the state of a view before anything was loaded into it
Unmounted ==
    /\ view = "none"
    /\ filter = [searchTerm |-> undefined, status |-> undefined]
    /\ activeFilter = AllFilter
    /\ sortBy = "deadline"
    /\ sortOrder = "asc"
    /\ viewMode = "list"
    /\ dateFilter = "all"
    /\ now = 0
    /\ cards = <<>>

----------------------------------------------------------------------------
(* The application: one mounted view over the shared store *)

Views == {"Home", "Research", "AllTasks", "DayTasks"}

Midday == DayMs \div 2

\* the tasks of the initial blobs, as typed Task objects
SeedTasks ==
    {Task(<<"1">>, <<"a">>, undefined, TODO,
          Date(1000), Date(1000), Date(DayMs + 1), Arr(<<Num(0), Num(3)>>)),
     Task(<<"2">>, <<"B">>, Str(<<"a">>), DONE,
          Date(2000), Date(Midday), undefined, undefined)}

UniqueIds(list) ==
    \A i, j \in DOMAIN list : list[i].id = list[j].id => i = j

\* blobs in the documented layout: what saveAllTasks writes for typed tasks
SeedBlobs ==
    {saveAllTasks(l) : l \in {m \in ListsUpTo(SeedTasks, MaxTasks) :
                                 UniqueIds(m)}}

\* AddTaskFab validateForm with the title as the only required field
fabValidateFormTitleOnly(title, deadline) == trim(title) # <<>>

\* AddTaskFab validateForm: the title must not be blank and a deadline
\* must be picked (an empty date input is undefined here)
fabValidateForm(title, deadline) ==
    trim(title) # <<>> /\ ~IsUndefined(deadline)

\* AddTaskFab submit builds the task: createdAt and updatedAt are two
\* `new Date()`, read one after the other
newTask(id, title, deadline, tags, created, updated) ==
    Task(id, trim(title), undefined, TODO, Date(created), Date(updated),
         IF IsUndefined(deadline) THEN undefined ELSE ParseDate(deadline),
         IF tags = <<>> THEN undefined ELSE Arr(tags))

\* AddTaskFab submit: what is stored under 'tasks' when it returns
submit(store, id, form, created, updated) ==
    IF fabValidateForm(form.title, form.deadline)
    THEN addTask(store, newTask(id, form.title, form.deadline, form.tags,
                                created, updated))
    ELSE store

\* the milliseconds the clock may advance between two reads that follow
\* each other in one expression
ClockTicks == {0, 1}

\* the instant the session starts
StartTime == DayMs + Midday

\* what the user can type or pick
SearchTerms == {<<"a">>}
StatusChoices == {TODO, DONE}
NewTitles == {<<"b">>}
NewIds == {<<"4">>}
\* the create form as submitted: title, date input, toggled tags
CreateForms ==
    {[title |-> <<"b", " ">>, deadline |-> [date |-> 1], tags |-> <<Num(1)>>],
     [title |-> <<"a">>, deadline |-> [date |-> 2], tags |-> <<>>]}
\* create forms the user may also submit: a blank title, no deadline
InvalidForms ==
    {[title |-> <<>>, deadline |-> [date |-> 2], tags |-> <<>>],
     [title |-> <<" ">>, deadline |-> [date |-> 2], tags |-> <<>>],
     [title |-> <<"b">>, deadline |-> undefined, tags |-> <<>>]}
\* titles the user may leave in the edit modal
BlankTitles == {<<>>, <<" ">>}

Init ==
    /\ modal = Closed
    /\ tabs = OneTab
    /\ storage \in {NoItem} \cup SeedBlobs
    /\ view = "none"
    /\ tasks = <<>>
    /\ filter = [searchTerm |-> undefined, status |-> undefined]
    /\ activeFilter = AllFilter
    /\ sortBy = "deadline"
    /\ sortOrder = "asc"
    /\ viewMode = "list"
    /\ dateFilter = "all"
    /\ now = StartTime
    /\ cards = <<>>
    /\ lastOp = [op |-> "init"]

\* the new value of `tasks` after the mounted view reloads
Reload(store, f) == loadTasksData(view, store, now, f, sortBy, sortOrder)

\* the router mounts a view: its refs start afresh, onMounted restores the
\* saved view mode and date filter and loads the tasks
Mount(v) ==
    /\ view # v
    /\ view' = v
    /\ filter' = [searchTerm |-> undefined, status |-> undefined]
    /\ activeFilter' = AllFilter
    /\ sortBy' = "deadline"
    /\ sortOrder' = "asc"
    /\ tasks' = loadTasksData(v, storage, now, filter', sortBy', sortOrder')
    /\ UNCHANGED <<storage, viewMode, dateFilter, now, cards, lastOp,
                   tabs, modal>>

\* onUpdateSearch / onUpdateSearchFromHeader
OnUpdateSearch(term) ==
    /\ view \in Views
    /\ filter' = [filter EXCEPT !.searchTerm = Str(term)]
    /\ tasks' = IF view = "Research" THEN tasks ELSE Reload(storage, filter')
    /\ UNCHANGED <<storage, view, activeFilter, sortBy, sortOrder, viewMode,
                   dateFilter, now, cards, lastOp,
                   tabs, modal>>

\* onUpdateActiveFilter: Home and AllTasks go through setStatusFilter, which
\* builds the filter anew; Research and useHeaderControls spread the old one
OnUpdateActiveFilter(v) ==
    /\ view \in Views
    /\ activeFilter' = v
    /\ filter' =
         IF view \in {"Home", "AllTasks"}
         THEN [searchTerm |-> undefined,
               status |-> IF v = AllFilter THEN undefined ELSE v]
         ELSE [filter EXCEPT !.status = IF v = AllFilter THEN undefined ELSE v]
    /\ tasks' = IF view = "Research" THEN tasks ELSE Reload(storage, filter')
    /\ UNCHANGED <<storage, view, sortBy, sortOrder, viewMode, dateFilter,
                   now, cards, lastOp,
                   tabs, modal>>

\* onUpdateView
OnUpdateView(mode) ==
    /\ view \in Views \ {"AllTasks"}
    /\ viewMode # mode
    /\ viewMode' = mode
    /\ UNCHANGED <<storage, view, tasks, filter, activeFilter, sortBy,
                   sortOrder, dateFilter, now, cards, lastOp,
                   tabs, modal>>

\* the ids stored under 'tasks', in stored order
IdSeq(store) == [i \in DOMAIN loadTasks(store) |-> loadTasks(store)[i].id]

\* what is remembered of a handler's run: its name, the id it was given,
\* the ids stored before it ran and those the view's filter was hiding
Ran(op, id) ==
    LET listed(x) == \E i \in DOMAIN tasks : tasks[i].id = x
        unlisted(x) == ~listed(x)
    IN  [op |-> op, id |-> id, before |-> IdSeq(storage),
         hidden |-> IF view = "Research"
                    THEN Len(tasks) - Len(filteredTasks(tasks, filter))
                    ELSE Len(SelectSeq(IdSeq(storage), unlisted))]

\* the clock: a handler that writes the store runs at `now`, and by the
\* time the next one runs the clock has advanced
ClockLeft == now < StartTime + MaxOps * Midday
Later == now + Midday

\* the cards the user can act on
Shown == Displayed(view, storage, tasks, now, filter, viewMode, dateFilter)

\* the forms the user can leave the edit modal with
EditForms(task) ==
    {[startEdit(task) EXCEPT !.title = title, !.deadline = deadline] :
        title \in {task.title} \cup NewTitles,
        deadline \in {startEdit(task).deadline, undefined}}

\* TaskModal saveEdit emits 'edit' and the view's handleTaskEdit runs
HandleTaskEdit(i, edited) ==
    /\ ClockLeft
    /\ validateForm(edited)
    /\ storage' = handleTaskEdit(view, storage, tasks,
                                 saveEdit(Shown[i], edited, now), now)
    /\ tasks' = IF storage' # storage \/ FindIndex(tasks, Shown[i].id) # 0
                THEN Reload(storage', filter) ELSE tasks
    /\ lastOp' = Ran("handleTaskEdit", Shown[i].id)
    /\ now' = Later
    /\ UNCHANGED <<view, controls, cards, tabs, modal>>

\* TaskCard, KanbanBoard or TaskModal emit 'delete'
HandleTaskDelete(i) ==
    /\ ClockLeft
    /\ storage' = handleTaskDelete(storage, Shown[i])
    /\ tasks' = Reload(storage', filter)
    /\ lastOp' = Ran("handleTaskDelete", Shown[i].id)
    /\ now' = Later
    /\ UNCHANGED <<view, controls, cards, tabs, modal>>

\* TaskModal selectStatus emits 'statusChange'
HandleStatusChange(i, newStatus) ==
    /\ ClockLeft
    /\ storage' = handleStatusChange(view, storage, tasks, Shown[i],
                                     newStatus, now)
    /\ tasks' = IF storage' # storage THEN Reload(storage', filter) ELSE tasks
    /\ lastOp' = Ran("handleStatusChange", Shown[i].id)
    /\ now' = Later
    /\ UNCHANGED <<view, controls, cards, tabs, modal>>

\* KanbanBoard onEnd: a card is dropped on the column toKey.  The board
\* saves, emits 'status-change' to the view's handleStatusChange, then
\* dispatches 'tasks-updated', on which the view reloads.
KanbanDrop(i, toKey) ==
    LET saved == onEndSave(storage, Shown[i].id, toKey, now)
        idx == FindIndex(loadTasks(saved), Shown[i].id)
    IN  /\ ClockLeft
        /\ viewMode = "kanban"
        /\ view # "AllTasks"
        /\ saved # storage
        /\ storage' = handleStatusChange(view, saved, tasks,
                                         loadTasks(saved)[idx], toKey, now)
        /\ tasks' = Reload(storage', filter)
        /\ lastOp' = Ran("onEnd", Shown[i].id)
        /\ now' = Later
        /\ UNCHANGED <<view, controls, cards, tabs, modal>>

\* AddTaskFab submit with a form that passes validateForm: addTask, then
\* 'tasks-updated' makes the view reload
Submit(id, form, tick) ==
    /\ ClockLeft
    /\ view \in Views
    /\ Len(loadTasks(storage)) < MaxTasks
    /\ \A i \in DOMAIN loadTasks(storage) : loadTasks(storage)[i].id # id
    /\ fabValidateForm(form.title, form.deadline)
    /\ storage' = submit(storage, id, form, now, now + tick)
    /\ tasks' = Reload(storage', filter)
    /\ lastOp' = Ran("submit", id)
    /\ now' = Later
    /\ UNCHANGED <<view, controls, cards, tabs, modal>>

Next ==
    \/ \E v \in Views : Mount(v)
    \/ \E term \in SearchTerms : OnUpdateSearch(term)
    \/ \E v \in {AllFilter} \cup {Num(st) : st \in StatusChoices} :
          OnUpdateActiveFilter(v)
    \/ \E mode \in {"list", "kanban"} : OnUpdateView(mode)
    \/ \E i \in DOMAIN Shown : \E edited \in EditForms(Shown[i]) :
          HandleTaskEdit(i, edited)
    \/ \E i \in DOMAIN Shown : HandleTaskDelete(i)
    \/ \E i \in DOMAIN Shown : \E st \in StatusChoices :
          HandleStatusChange(i, st)
    \/ \E i \in DOMAIN Shown : \E st \in StatusChoices : KanbanDrop(i, st)
    \/ \E id \in NewIds : \E form \in CreateForms : \E tick \in ClockTicks :
          Submit(id, form, tick)

Spec == Init /\ [][Next]_vars

\* the set of ids stored under 'tasks'
IdSet(store) == {IdSeq(store)[i] : i \in DOMAIN IdSeq(store)}

\* the ids a handler found stored when it started
IdsBefore == {lastOp.before[i] : i \in DOMAIN lastOp.before}

\* C2: an edit or a status change issued from any view, under any search
\* term or status filter, leaves the set of stored task ids as it was: no
\* task is removed and none is added.
C2_EditKeepsIds ==
    lastOp.op \in {"handleTaskEdit", "handleStatusChange"} =>
        IdSet(storage) = IdsBefore

\* C3: after handleTaskDelete(task) no stored task has the id task.id, every
\* task with another id is still stored, whatever filter the view is
\* showing, and the load that follows does not return the deleted id.
C3_Delete ==
    lastOp.op = "handleTaskDelete" =>
        /\ IdSet(storage) = IdsBefore \ {lastOp.id}
        /\ Len(IdSeq(storage)) = Len(lastOp.before) - 1
        /\ \A i \in DOMAIN tasks : tasks[i].id # lastOp.id
        /\ \A i \in DOMAIN Shown : Shown[i].id # lastOp.id

\* a task was deleted while the view's filter was hiding another stored
\* task, which is still stored
C3_Witness ==
    /\ lastOp.op = "handleTaskDelete"
    /\ lastOp.hidden > 0
    /\ lastOp.id \in IdsBefore
    /\ Len(lastOp.before) >= 2
    /\ IdSet(storage) # {}

\* the objects stored under 'tasks'
Stored(store) == IF "json" \in DOMAIN store THEN store.json ELSE <<>>

\* C17: the id and the createdAt of a stored task never change after its
\* creation, across edits, status changes, kanban drops and deletions or
\* additions of other tasks: every step keeps the createdAt of each id it
\* keeps, and only the create form brings in an id, the new task's.
C17_IdAndCreatedAtFixed ==
    [][/\ \A i \in DOMAIN Stored(storage) : \A j \in DOMAIN Stored(storage') :
             Stored(storage)[i].id = Stored(storage')[j].id
             => Stored(storage)[i].createdAt = Stored(storage')[j].createdAt
       /\ \A j \in DOMAIN Stored(storage') :
             \/ Stored(storage')[j].id \in IdSet(storage)
             \/ lastOp'.op = "submit" /\ lastOp'.id = Stored(storage')[j].id
      ]_vars

\* a seed task was given a new title by an edit: it is stored with the
\* createdAt it had and a later updatedAt
C17_Witness ==
    /\ lastOp.op = "handleTaskEdit"
    /\ \E i \in DOMAIN Stored(storage) :
          /\ Stored(storage)[i].id = lastOp.id
          /\ Stored(storage)[i].title \in NewTitles
          /\ Stored(storage)[i].createdAt = toISOString(Date(1000))
          /\ Stored(storage)[i].updatedAt = toISOString(Date(StartTime))

\* the stored object o2 is o with at most status and updatedAt changed
SameButStatus(o, o2) ==
    /\ DOMAIN o2 = DOMAIN o
    /\ \A k \in DOMAIN o \ {"status", "updatedAt"} : o2[k] = o[k]

\* C27: a kanban drop of task t changes, in the stored collection, only
\* t's status and t's updatedAt: every other task and every other field of
\* t stay as stored.
C27_DropFrame ==
    [][now' # now /\ lastOp'.op = "onEnd"
       => /\ Len(Stored(storage')) = Len(Stored(storage))
          /\ \A i \in DOMAIN Stored(storage) :
                IF Stored(storage)[i].id = lastOp'.id
                THEN SameButStatus(Stored(storage)[i], Stored(storage')[i])
                ELSE Stored(storage')[i] = Stored(storage)[i]
      ]_vars

\* a stored object in the documented layout: status an integer 0..4, and
\* tags, when present, an array of integers 0..3
DocumentedLayout(o) ==
    /\ o.status \in Status
    /\ "tags" \in DOMAIN o =>
          \A i \in DOMAIN o.tags.arr :
              /\ IsNum(o.tags.arr[i])
              /\ o.tags.arr[i].num \in 0..(Len(TagNames) - 1)

\* C4: after any sequence of add, edit, status-change, drag-and-drop and
\* delete operations starting from a blob in the documented layout, every
\* object stored under 'tasks' has status an integer 0..4 and tags, when
\* present, an array of integers 0..3.
C4_PersistedLayout ==
    "json" \in DOMAIN storage =>
        \A i \in DOMAIN storage.json : DocumentedLayout(storage.json[i])

----------------------------------------------------------------------------
(* Queries: a view is mounted over a store and its header controls are used *)

Tomorrow == StartTime + DayMs

QueryTasks ==
    {Task(<<"1">>, <<"a">>, undefined, TODO,
          Date(1000), Date(3000), Date(DayMs + 1), Arr(<<>>)),
     Task(<<"2">>, <<"B">>, Str(<<"a">>), DONE,
          Date(2000), Date(2000), undefined, undefined),
     Task(<<"3">>, <<"A", "b">>, undefined, TODO,
          Date(2000), Date(1000), undefined, Arr(<<Num(1)>>)),
     Task(<<"4">>, <<"b">>, Str(<<"A", " ">>), TODO,
          Date(3000), Date(3000), Date(Tomorrow), undefined)}

QueryBlobs ==
    {saveAllTasks(l) : l \in {m \in ListsUpTo(QueryTasks, MaxTasks) :
                                 UniqueIds(m)}}

QueryTerms == {<<"a">>, <<"A", " ">>, <<" ">>}

SortFields == {"deadline", "createdAt", "updatedAt"}

InitQuery ==
    /\ modal = Closed
    /\ tabs = OneTab
    /\ storage \in {NoItem} \cup QueryBlobs
    /\ view = "none"
    /\ tasks = <<>>
    /\ filter = [searchTerm |-> undefined, status |-> undefined]
    /\ activeFilter = AllFilter
    /\ sortBy = "deadline"
    /\ sortOrder = "asc"
    /\ viewMode = "list"
    /\ dateFilter = "all"
    /\ now = StartTime
    /\ cards = <<>>
    /\ lastOp = [op |-> "init"]

\* onUpdateSortBy: Home and AllTasks reload from their watch on
\* [sortBy, sortOrder], useHeaderControls calls the reload itself, Research
\* only keeps the value
OnUpdateSortBy(v) ==
    /\ view \in Views
    /\ sortBy # v
    /\ sortBy' = v
    /\ tasks' = IF view = "Research" THEN tasks
                ELSE loadTasksData(view, storage, now, filter, v, sortOrder)
    /\ UNCHANGED <<storage, view, filter, activeFilter, sortOrder, viewMode,
                   dateFilter, now, cards, lastOp,
                   tabs, modal>>

\* onUpdateSortOrder
OnUpdateSortOrder(v) ==
    /\ view \in Views
    /\ sortOrder # v
    /\ sortOrder' = v
    /\ tasks' = IF view = "Research" THEN tasks
                ELSE loadTasksData(view, storage, now, filter, sortBy, v)
    /\ UNCHANGED <<storage, view, filter, activeFilter, sortBy, viewMode,
                   dateFilter, now, cards, lastOp,
                   tabs, modal>>

NextQuery ==
    \/ \E v \in Views : Mount(v)
    \/ \E term \in QueryTerms : OnUpdateSearch(term)
    \/ \E v \in {AllFilter} \cup {Num(st) : st \in StatusChoices} :
          OnUpdateActiveFilter(v)
    \/ \E v \in SortFields : OnUpdateSortBy(v)
    \/ \E v \in {"asc", "desc"} : OnUpdateSortOrder(v)

SpecQuery == InitQuery /\ [][NextQuery]_vars

\* C8: when sorting by deadline, every task without a deadline comes after
\* every task with a deadline in ascending order and before every task with
\* a deadline in descending order (A without deadline, B due tomorrow:
\* ascending gives [B, A], descending gives [A, B]).
C8_MissingDeadlinePolicy ==
    (view \in {"AllTasks", "DayTasks"} /\ sortBy = "deadline") =>
        \A i, j \in DOMAIN tasks :
            (IsUndefined(tasks[i].deadline) /\ ~IsUndefined(tasks[j].deadline))
            => IF sortOrder = "asc" THEN j < i ELSE i < j

\* A (no deadline) is stored before B (due tomorrow) and All Tasks, sorting
\* by deadline ascending, lists [B, A]
C8_Witness ==
    /\ view = "AllTasks"
    /\ sortBy = "deadline"
    /\ sortOrder = "asc"
    /\ Len(tasks) = 2
    /\ IdSeq(storage) = <<tasks[2].id, tasks[1].id>>
    /\ IsUndefined(tasks[2].deadline)
    /\ ~IsUndefined(tasks[1].deadline)
    /\ tasks[1].deadline.time = Tomorrow

\* a before b in the order of the field `by` in the direction `order`;
\* tasks that lack the field are not compared
InOrder(a, b, by, order) ==
    (~IsUndefined(a[by]) /\ ~IsUndefined(b[by])) =>
        IF order = "asc" THEN a[by].time <= b[by].time
        ELSE a[by].time >= b[by].time

\* C9: in the Home view, after the sort field or the sort order is changed,
\* the displayed task list is reloaded and is ordered by the chosen field
\* in the chosen direction.
C9_HomeSortApplied ==
    [][(view = "Home" /\ view' = "Home"
            /\ (sortBy' # sortBy \/ sortOrder' # sortOrder))
       => \A i, j \in DOMAIN tasks' :
             i < j => InOrder(tasks'[i], tasks'[j], sortBy', sortOrder')]_vars

\* text contains term as a substring
Contains(text, term) ==
    \E i \in 1..(Len(text) + 1) : \E j \in (i - 1)..Len(text) :
        SubSeq(text, i, j) = term

\* what each query documents as a match of a non-blank search term:
\* Home looks for the term as typed in the title; All Tasks looks for the
\* trimmed term, ignoring case, in title and description; Research looks
\* for the term as typed, ignoring case, in title, description and id
Matches(v, t, term) ==
    LET desc == IF IsUndefined(t.description) THEN <<>> ELSE t.description.str
    IN  CASE v = "Home" -> Contains(t.title, term)
          [] v = "AllTasks" ->
                \/ Contains(toLowerCase(t.title), toLowerCase(trim(term)))
                \/ /\ desc # <<>>
                   /\ Contains(toLowerCase(desc), toLowerCase(trim(term)))
          [] v = "Research" ->
                \/ Contains(toLowerCase(t.title), toLowerCase(term))
                \/ /\ ~IsUndefined(t.description)
                   /\ Contains(toLowerCase(desc), toLowerCase(term))
                \/ Contains(toLowerCase(t.id), toLowerCase(term))

\* the sort of the view does not tell a from b
Tied(v, a, b) ==
    CASE v = "Home" -> a.createdAt = b.createdAt
      [] v = "AllTasks" -> a[sortBy] = b[sortBy]
      [] v = "Research" -> TRUE

\* position of the task with the given id in the stored collection
StoredAt(id) == CHOOSE i \in DOMAIN IdSeq(storage) : IdSeq(storage)[i] = id

\* both a status filter and a non-blank search term are set
BothFiltersSet ==
    /\ view \in {"Home", "AllTasks", "Research"}
    /\ ~IsUndefined(filter.status)
    /\ ~IsUndefined(filter.searchTerm)
    /\ trim(filter.searchTerm.str) # <<>>

\* C10: when both a status filter and a search term are set, the query
\* result holds exactly the stored tasks that have that status and match
\* the search term, and, sorting apart, they keep their relative order
\* from the stored collection.
C10_FilterComposition ==
    BothFiltersSet =>
        LET stored == loadTasks(storage)
            wanted == {i \in DOMAIN stored :
                          /\ stored[i].status = filter.status.num
                          /\ Matches(view, stored[i], filter.searchTerm.str)}
        IN  /\ Len(Shown) = Cardinality(wanted)
            /\ \A i \in wanted : \E k \in DOMAIN Shown : Shown[k] = stored[i]
            /\ \A k, l \in DOMAIN Shown :
                  (k < l /\ Tied(view, Shown[k], Shown[l]))
                  => StoredAt(Shown[k].id) < StoredAt(Shown[l].id)

\* Research shows the one stored task that is TODO and matches the term,
\* and leaves out a stored task that matches the term and is not TODO
C10_Witness ==
    /\ BothFiltersSet
    /\ view = "Research"
    /\ filter.status = Num(TODO)
    /\ Len(Shown) = 1
    /\ \E i \in DOMAIN loadTasks(storage) :
          /\ Matches(view, loadTasks(storage)[i], filter.searchTerm.str)
          /\ loadTasks(storage)[i].status # TODO

\* the list the mounted view loads under the sort order `order`
SortedBy(order) == loadTasksData(view, storage, now, filter, sortBy, order)

\* Array.prototype.reverse
Reverse(list) == [i \in DOMAIN list |-> list[Len(list) + 1 - i]]

\* the views that sort by the chosen field and order
SortingView == view \in {"AllTasks", "DayTasks"} /\ tasks = SortedBy(sortOrder)

\* C25: for any task list and sort field, the list sorted in descending
\* order is the exact reverse of the same list sorted in ascending order,
\* also when several tasks have equal sort keys or lack a deadline.
C25_DescendingIsReverse ==
    SortingView => SortedBy("desc") = Reverse(SortedBy("asc"))

\* two tasks have the same sort key: the same instant, or both none
SameKey(a, b) ==
    IF IsUndefined(a[sortBy]) \/ IsUndefined(b[sortBy])
    THEN IsUndefined(a[sortBy]) /\ IsUndefined(b[sortBy])
    ELSE a[sortBy].time = b[sortBy].time

\* tasks of the list with the same key are in the order they are stored in
TiesInStoredOrder(list) ==
    \A i, j \in DOMAIN list :
        i < j /\ SameKey(list[i], list[j])
        => StoredAt(list[i].id) < StoredAt(list[j].id)

\* C25 as the code has it: the descending list is the reverse of the
\* ascending one when no two listed tasks have the same sort key; tasks
\* with the same key keep their stored order under both orders.
C25_DescendingReversesDistinctKeys ==
    SortingView =>
        /\ (\A i, j \in DOMAIN tasks : i # j => ~SameKey(tasks[i], tasks[j]))
             => SortedBy("desc") = Reverse(SortedBy("asc"))
        /\ TiesInStoredOrder(SortedBy("asc"))
        /\ TiesInStoredOrder(SortedBy("desc"))

\* All Tasks lists two tasks without a deadline by deadline, descending,
\* in the order it listed them ascending
C25_Witness ==
    /\ view = "AllTasks"
    /\ sortBy = "deadline"
    /\ sortOrder = "desc"
    /\ Len(tasks) = 2
    /\ SameKey(tasks[1], tasks[2])
    /\ tasks = SortedBy("asc")

\* C29: in a mounted view, changing the status filter leaves
\* filter.searchTerm unchanged, changing the search term leaves
\* filter.status unchanged, and activeFilter is 'all' exactly when
\* filter.status is undefined, so that the query holds both the last
\* search term and the last status whatever the order they were set in.
C29_FiltersIndependent ==
    [][view' = view /\ view \in Views
       => /\ activeFilter' # activeFilter
             => filter'.searchTerm = filter.searchTerm
          /\ filter'.searchTerm # filter.searchTerm
             => filter'.status = filter.status
          /\ activeFilter' = AllFilter <=> IsUndefined(filter'.status)
      ]_vars

----------------------------------------------------------------------------
(* Classification: the cards of a list of tasks are rendered at `now` *)

Second == 1000
Minute == 60 * Second

\* the instants the cards are rendered at: midday and the last ms of a day
RenderTimes == {5 * DayMs + Midday, 6 * DayMs - 1}

\* deadline minus render time, around every boundary of the classifier
Offsets ==
    {-2 * DayMs, -DayMs - 1, -DayMs, -DayMs + 1, -Second, -1, 0, 1, Second,
     DayMs - 1, DayMs, DayMs + Minute, 3 * DayMs - 1, 3 * DayMs,
     3 * DayMs + 1, 4 * DayMs}

ClassifyTasks(clock) ==
    {Task(<<"1">>, <<"a">>, undefined, st, Date(1000), Date(1000), deadline,
          Arr(<<>>)) :
        st \in Status,
        deadline \in {undefined} \cup {Date(clock + off) : off \in Offsets}}

\* the cards of one task fewer than a stored list holds are rendered
InitClassify ==
    /\ modal = Closed
    /\ tabs = OneTab
    /\ now \in RenderTimes
    /\ tasks \in {l \in ListsUpTo(ClassifyTasks(now), MaxTasks - 1) : l # <<>>}
    /\ storage = NoItem
    /\ view = "none"
    /\ filter = [searchTerm |-> undefined, status |-> undefined]
    /\ activeFilter = AllFilter
    /\ sortBy = "deadline"
    /\ sortOrder = "asc"
    /\ viewMode = "list"
    /\ dateFilter = "all"
    /\ cards = <<>>
    /\ lastOp = [op |-> "init"]

\* every card computes its badge, and the modal its deadline status
Render ==
    /\ lastOp.op = "init"
    /\ cards' = [i \in DOMAIN tasks |->
                    [status |-> getDeadlineStatus(tasks[i], now),
                     badge |-> deadlineStatus(tasks[i], now)]]
    /\ lastOp' = [op |-> "render"]
    /\ UNCHANGED <<storage, view, tasks, controls, now, tabs, modal>>

NextClassify == Render

SpecClassify == InitClassify /\ [][NextClassify]_vars

Finished == {DONE, CANCELLED, ARCHIVED}

\* C5: getDeadlineStatus returns null exactly when the task has no deadline
\* or its status is DONE, CANCELLED or ARCHIVED; for a finished task the
\* result is null whatever the deadline, past, present or future.  The
\* badge of the card follows the same gate.
C5_StatusGating ==
    lastOp.op = "render" =>
        \A i \in DOMAIN tasks :
            LET gated == IsUndefined(tasks[i].deadline)
                            \/ tasks[i].status \in Finished
            IN  /\ IsNull(cards[i].status) <=> gated
                /\ IsNull(cards[i].badge) <=> gated

\* an archived task whose deadline passed two days ago rendered without
\* a deadline status
C5_Witness ==
    /\ lastOp.op = "render"
    /\ \E i \in DOMAIN tasks :
          /\ tasks[i].status = ARCHIVED
          /\ ~IsUndefined(tasks[i].deadline)
          /\ tasks[i].deadline.time = now - 2 * DayMs
          /\ IsNull(cards[i].status)

\* C6: a task with status TODO or IN_PROGRESS whose deadline is 1 second
\* in the past classifies as 'overdue'.
C6_OverdueBoundary ==
    lastOp.op = "render" =>
        \A i \in DOMAIN tasks :
            (/\ tasks[i].status \in {TODO, IN_PROGRESS}
             /\ ~IsUndefined(tasks[i].deadline)
             /\ tasks[i].deadline.time = now - Second)
            => cards[i].status = Str("overdue")

\* the bucket the rules give for a whole number of days d
Bucket(d) ==
    IF d < 0 THEN "overdue"
    ELSE IF d = 0 THEN "today"
    ELSE IF d <= 3 THEN "soon"
    ELSE "normal"

----------------------------------------------------------------------------
(* Round trip through the store: saveAllTasks then loadTasks *)

\* typed Task objects as the application builds them: tags are Tags numbers
RoundTripTasks ==
    {Task(id, <<"a">>, description, TODO, Date(1), Date(DayMs + 1001),
          deadline, tags) :
        id \in {<<"1">>, <<"2">>},
        description \in {undefined, Str(<<"b">>)},
        deadline \in {undefined, Date(2 * DayMs + 500)},
        tags \in {undefined, Arr(<<>>), Arr(<<Num(0)>>),
                  Arr(<<Num(2), Num(3)>>)}}

InitRoundTrip ==
    /\ modal = Closed
    /\ tabs = OneTab
    /\ tasks \in ListsUpTo(RoundTripTasks, MaxTasks)
    /\ storage = NoItem
    /\ lastOp = [op |-> "init"]
    /\ Unmounted

RoundTripSave ==
    /\ lastOp.op = "init"
    /\ storage' = saveAllTasks(tasks)
    /\ lastOp' = [op |-> "saveAllTasks", input |-> tasks]
    /\ UNCHANGED <<view, tasks, controls, now, cards, tabs, modal>>

RoundTripLoad ==
    /\ lastOp.op = "saveAllTasks"
    /\ tasks' = loadTasks(storage)
    /\ lastOp' = [op |-> "loadTasks", input |-> lastOp.input]
    /\ UNCHANGED <<storage, view, controls, now, cards, tabs, modal>>

NextRoundTrip == RoundTripSave \/ RoundTripLoad

SpecRoundTrip == InitRoundTrip /\ [][NextRoundTrip]_vars

\* the tags of a task as a set of values; no tags is the empty set
TagSet(t) ==
    IF IsUndefined(t.tags) THEN {}
    ELSE {t.tags.arr[i] : i \in DOMAIN t.tags.arr}

SameTask(a, b) ==
    /\ a.id = b.id
    /\ a.title = b.title
    /\ a.description = b.description
    /\ a.status = b.status
    /\ a.createdAt.time = b.createdAt.time
    /\ a.updatedAt.time = b.updatedAt.time
    /\ IsUndefined(a.deadline) <=> IsUndefined(b.deadline)
    /\ ~IsUndefined(a.deadline) => a.deadline = b.deadline
    /\ TagSet(a) = TagSet(b)

\* C1: saveAllTasks(tasks) followed by loadTasks() returns the same tasks in
\* the same order with identical field values: timestamps to the
\* millisecond, tags the same set of enumerated values, deadline absent iff
\* it was absent in the input.
C1_RoundTrip ==
    lastOp.op = "loadTasks" =>
        /\ Len(tasks) = Len(lastOp.input)
        /\ \A i \in DOMAIN tasks : SameTask(lastOp.input[i], tasks[i])

----------------------------------------------------------------------------
(* The kanban board under the date filter *)

\* the instant the board is looked at
BoardTime == 5 * DayMs + Midday

\* deadline minus BoardTime: yesterday at midday and late in the evening,
\* a second ago, later today, tomorrow, in three and in four days
BoardOffsets ==
    {-DayMs, -Midday - Second, -Second, Midday - Second, DayMs, 3 * DayMs,
     4 * DayMs}

BoardTasks(id) ==
    {Task(id, <<"a">>, undefined, st, Date(1000), Date(1000), deadline,
          undefined) :
        st \in Status,
        deadline \in {undefined} \cup
                     {Date(BoardTime + off) : off \in BoardOffsets}}

\* stored lists of up to two tasks
BoardBlobs ==
    {saveAllTasks(<<>>)}
        \cup {saveAllTasks(<<a>>) : a \in BoardTasks(<<"1">>)}
        \cup {saveAllTasks(<<a, b>>) : a \in BoardTasks(<<"1">>),
                                       b \in BoardTasks(<<"2">>)}

DateFilters == {"all", "overdue", "today", "soon", "future"}

InitBoard ==
    /\ modal = Closed
    /\ tabs = OneTab
    /\ storage \in BoardBlobs
    /\ view = "none"
    /\ tasks = <<>>
    /\ filter = [searchTerm |-> undefined, status |-> undefined]
    /\ activeFilter = AllFilter
    /\ sortBy = "deadline"
    /\ sortOrder = "asc"
    /\ viewMode = "list"
    /\ dateFilter = "all"
    /\ now = BoardTime
    /\ cards = <<>>
    /\ lastOp = [op |-> "init"]

\* onUpdateDateFilter
OnUpdateDateFilter(v) ==
    /\ view \in Views
    /\ dateFilter # v
    /\ dateFilter' = v
    /\ UNCHANGED <<storage, view, tasks, filter, activeFilter, sortBy,
                   sortOrder, viewMode, now, cards, lastOp,
                   tabs, modal>>

NextBoard ==
    \/ \E v \in Views : Mount(v)
    \/ \E mode \in {"list", "kanban"} : OnUpdateView(mode)
    \/ \E v \in DateFilters : OnUpdateDateFilter(v)

SpecBoard == InitBoard /\ [][NextBoard]_vars

\* the board is on screen and filters by a date bucket
BucketBoard ==
    BoardShown(view, tasks, filter, viewMode) /\ dateFilter # "all"

DaysAhead(t) == DateOf(t.deadline.time) - DateOf(now)

\* the date bucket of a number of calendar days
DateBucket(d) ==
    IF d < 0 THEN "overdue"
    ELSE IF d = 0 THEN "today"
    ELSE IF d <= 3 THEN "soon"
    ELSE "future"

BucketOfStatus(status) ==
    IF IsNull(status) THEN "none"
    ELSE IF status.str = "normal" THEN "future"
    ELSE status.str

\* C12: for every task with a deadline and status TODO or IN_PROGRESS the
\* date-bucket filter keeps the task under bucket b exactly when the
\* deadline classifier, at the same instant, assigns it b ('future' for
\* 'normal'); tasks without a deadline are kept only under 'all'.
C12_FilterAgreesWithClassifier ==
    BucketBoard =>
        \A i \in DOMAIN loadTasks(storage) :
            LET t == loadTasks(storage)[i]
                kept == \E k \in DOMAIN Shown : Shown[k].id = t.id
            IN  /\ IsUndefined(t.deadline) => ~kept
                /\ (~IsUndefined(t.deadline)
                        /\ t.status \in {TODO, IN_PROGRESS})
                   => (kept <=>
                         BucketOfStatus(getDeadlineStatus(t, now)) = dateFilter)

\* C21: every task the Day Tasks view passes to its display, in list mode
\* and in kanban mode and under any date-bucket filter, has a deadline
\* whose calendar date is today.
C21_DayTasksDueToday ==
    view = "DayTasks" =>
        \A i \in DOMAIN Shown :
            /\ ~IsUndefined(Shown[i].deadline)
            /\ DaysAhead(Shown[i]) = 0

----------------------------------------------------------------------------
(* The store functions called one after the other on a stored value *)

Today == StartOfDay(StartTime)

\* tasks due around the two ends of today, and two more with tags
StoreTasks ==
    {Task(<<"1">>, <<"a">>, undefined, TODO, Date(1000), Date(1000),
          Date(Today - 1), undefined),
     Task(<<"2">>, <<"a">>, undefined, TODO, Date(1000), Date(1000),
          Date(Today), undefined),
     Task(<<"3">>, <<"a">>, undefined, DONE, Date(1000), Date(2000),
          Date(Today + DayMs - 1), undefined),
     Task(<<"4">>, <<"a">>, undefined, TODO, Date(1000), Date(1000),
          Date(Today + DayMs), undefined),
     Task(<<"5">>, <<"a">>, Str(<<"b">>), ARCHIVED, Date(2000), Date(3000),
          Date(StartTime), Arr(<<Num(0)>>)),
     Task(<<"6">>, <<"b">>, undefined, TODO, Date(3000), Date(3000),
          undefined, Arr(<<Num(2), Num(3)>>))}

StoreBlobs == {saveAllTasks(l) : l \in ListsUpTo(StoreTasks, MaxTasks)}

\* the tasks handed to addTask: one with a stored id, one with a new id
AddedTasks ==
    {Task(<<"1">>, <<"b">>, undefined, TODO, Date(StartTime),
          Date(StartTime), Date(Today), Arr(<<Num(1)>>)),
     Task(<<"7">>, <<"b">>, undefined, TODO, Date(StartTime),
          Date(StartTime), undefined, undefined)}

InitStore ==
    /\ modal = Closed
    /\ tabs = OneTab
    /\ storage \in {NoItem, Malformed} \cup StoreBlobs
    /\ view = "none"
    /\ tasks = <<>>
    /\ filter = [searchTerm |-> undefined, status |-> undefined]
    /\ activeFilter = AllFilter
    /\ sortBy = "deadline"
    /\ sortOrder = "asc"
    /\ viewMode = "list"
    /\ dateFilter = "all"
    /\ now = StartTime
    /\ cards = <<>>
    /\ lastOp = [op |-> "init"]

\* what is remembered of a call: the function, the stored value and the
\* loaded list before it, its argument, and the error it threw
Called(op, arg) ==
    [op |-> op, arg |-> arg, before |-> storage,
     loaded |-> IF ParseFails(storage) THEN <<>> ELSE loadTasks(storage),
     threw |-> IF ParseFails(storage) THEN "SyntaxError" ELSE "none"]

\* a caller keeps the list a load function returns, unless it threw
CallLoad(op, result) ==
    /\ tasks' = IF ParseFails(storage) THEN tasks ELSE result
    /\ lastOp' = Called(op, <<>>)
    /\ UNCHANGED <<storage, view, controls, now, cards, tabs, modal>>

CallLoadTasks == CallLoad("loadTasks", loadTasks(storage))

CallLoadTodayTasks == CallLoad("loadTodayTasks", loadTodayTasks(storage, now))

CallLoadArchivedTasks ==
    CallLoad("loadArchivedTasks", loadArchivedTasks(storage))

CallLoadTasksForHome(f) ==
    /\ filter' = f
    /\ tasks' = IF ParseFails(storage) THEN tasks
                ELSE loadTasksForHome(storage, f, sortBy)
    /\ lastOp' = Called("loadTasksForHome", <<>>)
    /\ UNCHANGED <<storage, view, activeFilter, sortBy, sortOrder, viewMode,
                   dateFilter, now, cards,
                   tabs, modal>>

\* addTask(task): its loadTasks() may throw before anything is written
CallAddTask(task) ==
    /\ ~ParseFails(storage) => Len(loadTasks(storage)) <= MaxTasks
    /\ storage' = IF ParseFails(storage) THEN storage
                  ELSE addTask(storage, task)
    /\ lastOp' = Called("addTask", <<task>>)
    /\ UNCHANGED <<view, tasks, controls, now, cards, tabs, modal>>

NextStore ==
    \/ CallLoadTasks
    \/ CallLoadTodayTasks
    \/ CallLoadArchivedTasks
    \/ \E st \in {undefined, Num(TODO)} :
          CallLoadTasksForHome([searchTerm |-> undefined, status |-> st])
    \/ \E task \in AddedTasks : CallAddTask(task)

SpecStore == InitStore /\ [][NextStore]_vars

\* C13: loadTodayTasks() returns exactly the stored tasks that have a
\* deadline whose calendar date equals today's calendar date, whatever the
\* time of day, in stored order; tasks without a deadline are never
\* returned.
C13_TodayTasks ==
    (lastOp.op = "loadTodayTasks" /\ lastOp.threw = "none") =>
        LET stored == loadTasks(storage)
            today == {i \in DOMAIN stored :
                         /\ ~IsUndefined(stored[i].deadline)
                         /\ Today <= stored[i].deadline.time
                         /\ stored[i].deadline.time < Today + DayMs}
        IN  /\ Len(tasks) = Cardinality(today)
            /\ \E pos \in [DOMAIN tasks -> today] :
                  /\ \A k \in DOMAIN tasks : tasks[k] = stored[pos[k]]
                  /\ \A k, l \in DOMAIN tasks : k < l => pos[k] < pos[l]

\* of a task due at the first instant of today and one due at the first
\* instant of tomorrow, the first alone is returned
C13_Witness ==
    /\ lastOp.op = "loadTodayTasks"
    /\ Len(loadTasks(storage)) = 2
    /\ loadTasks(storage)[1].deadline = Date(Today)
    /\ loadTasks(storage)[2].deadline = Date(Today + DayMs)
    /\ Len(tasks) = 1
    /\ tasks[1].deadline = Date(Today)

LoadOps ==
    {"loadTasks", "loadTodayTasks", "loadArchivedTasks", "loadTasksForHome"}

C16_AddAppends ==
    (lastOp.op = "addTask" /\ lastOp.threw = "none") =>
        LET next == loadTasks(storage)
            L == lastOp.loaded
        IN  /\ Len(next) = Len(L) + 1
            /\ \A i \in DOMAIN L : SameTask(L[i], next[i])
            /\ SameTask(lastOp.arg[1], next[Len(next)])

----------------------------------------------------------------------------
(* The forms: AddTaskFab submit and TaskModal saveEdit, with every form    *)
(* the user can leave them with                                            *)

InitForms == Init

\* what is remembered of a form's handler: the form it was given, what was
\* stored when it started and the events the form emitted or dispatched
Tried(op, id, title, deadline, events) ==
    [op |-> op, id |-> id, title |-> title, deadline |-> deadline,
     before |-> storage, events |-> events]

\* AddTaskFab submit: an invalid form shakes the dialog and returns; a
\* valid one is added, 'tasks-updated' is dispatched and the view reloads
FabSubmit(id, form, tick) ==
    LET valid == fabValidateForm(form.title, form.deadline)
    IN  /\ view \in Views
        /\ valid => ClockLeft
        /\ Len(loadTasks(storage)) < MaxTasks
        /\ \A i \in DOMAIN loadTasks(storage) : loadTasks(storage)[i].id # id
        /\ storage' = submit(storage, id, form, now, now + tick)
        /\ tasks' = IF valid THEN Reload(storage', filter) ELSE tasks
        /\ lastOp' = Tried("submit", id, form.title, form.deadline,
                           IF valid THEN {"tasks-updated"} ELSE {})
        /\ now' = IF valid THEN Later ELSE now
        /\ UNCHANGED <<view, controls, cards, tabs, modal>>

\* TaskModal saveEdit: an invalid form shakes the dialog and returns; a
\* valid one is emitted with 'edit' and the view's handleTaskEdit runs
ModalSave(i, edited) ==
    LET valid == validateForm(edited)
    IN  /\ valid => ClockLeft
        /\ storage' = IF valid
                      THEN handleTaskEdit(view, storage, tasks,
                                          saveEdit(Shown[i], edited, now), now)
                      ELSE storage
        /\ tasks' = IF valid /\ (storage' # storage
                                 \/ FindIndex(tasks, Shown[i].id) # 0)
                    THEN Reload(storage', filter) ELSE tasks
        /\ lastOp' = Tried("saveEdit", Shown[i].id, edited.title,
                           edited.deadline, IF valid THEN {"edit"} ELSE {})
        /\ now' = IF valid THEN Later ELSE now
        /\ UNCHANGED <<view, controls, cards, tabs, modal>>

NextForms ==
    \/ \E v \in Views : Mount(v)
    \/ \E id \in NewIds : \E form \in CreateForms \cup InvalidForms :
          \E tick \in ClockTicks : FabSubmit(id, form, tick)
    \/ \E i \in DOMAIN Shown : \E edited \in EditForms(Shown[i]) :
          \E title \in {edited.title} \cup BlankTitles :
             ModalSave(i, [edited EXCEPT !.title = title])

SpecForms == InitForms /\ [][NextForms]_vars

\* C18: a task created by the create form is stored with status TODO and
\* with createdAt equal to updatedAt, and updatedAt is never before
\* createdAt for any stored task.
C18_CreationStamps ==
    /\ lastOp.op = "submit" /\ lastOp.events # {}
       => \E i \in DOMAIN loadTasks(storage) :
             /\ loadTasks(storage)[i].id = lastOp.id
             /\ loadTasks(storage)[i].status = TODO
             /\ loadTasks(storage)[i].createdAt = loadTasks(storage)[i].updatedAt
    /\ \A i \in DOMAIN loadTasks(storage) :
          loadTasks(storage)[i].updatedAt.time
              >= loadTasks(storage)[i].createdAt.time

\* a title that is empty or made of white space only
Blank(title) == \A i \in DOMAIN title : title[i] = " "

\* the last handler was given a form the claim says is rejected
Rejectable ==
    \/ /\ lastOp.op = "submit"
       /\ Blank(lastOp.title) \/ IsUndefined(lastOp.deadline)
    \/ /\ lastOp.op = "saveEdit"
       /\ Blank(lastOp.title)

\* C20: validation comes before the store is touched: a create form
\* submitted with a blank title or an empty deadline, and a modal saved
\* with a blank title, leave what is stored as it was, emit no 'edit' and
\* dispatch no 'tasks-updated'; no stored title is blank.
C20_ValidationFirst ==
    /\ Rejectable => storage = lastOp.before /\ lastOp.events = {}
    /\ \A i \in DOMAIN loadTasks(storage) : ~Blank(loadTasks(storage)[i].title)

\* a create form with a title and no deadline was submitted to a view
\* that has loaded the stored tasks: nothing was added
C20_Witness ==
    /\ lastOp.op = "submit"
    /\ ~Blank(lastOp.title)
    /\ IsUndefined(lastOp.deadline)
    /\ lastOp.events = {}
    /\ storage = lastOp.before
    /\ storage # NoItem

----------------------------------------------------------------------------
(* Rejected writes: localStorage.setItem may throw (quota exceeded,        *)
(* storage disabled) in any handler that saves                             *)

\* localStorage.setItem('tasks', value): a rejected write throws and
\* leaves the item as it was
setItem(store, value, rejects) == IF rejects THEN store ELSE value

\* no handler catches what saveAllTasks throws
CatchesNothing(op) == FALSE

\* the handlers whose body is wrapped in try/catch with a console.error:
\* KanbanBoard onEnd, alone
Catches(op) == op = "onEnd"

\* what is remembered of a handler that reached a write: what was stored
\* before that write, whether it was rejected and what became of the error
Attempt(op, id, before, threw) ==
    [op |-> op, id |-> id, before |-> before, threw |-> threw,
     outcome |-> IF ~threw THEN "saved"
                 ELSE IF Catches(op) THEN "logged" ELSE "thrown"]

\* a handler of a view saves `result`; when the write is rejected the
\* handler is left at saveAllTasks, with `memory` as the view's list, and
\* the reload that follows the save does not run
Write(op, id, result, memory, rejects) ==
    /\ ClockLeft
    /\ result # storage
    /\ storage' = setItem(storage, result, rejects)
    /\ tasks' = IF rejects THEN memory ELSE Reload(storage', filter)
    /\ lastOp' = Attempt(op, id, storage, rejects)
    /\ now' = Later
    /\ UNCHANGED <<view, controls, cards, tabs, modal>>

\* Home.vue and Research.vue change their own list before they save it
LocalList(id, changed(_)) ==
    LET idx == FindIndex(tasks, id)
    IN  IF view \in {"Home", "Research"} /\ idx # 0
        THEN [tasks EXCEPT ![idx] = changed(tasks[idx])]
        ELSE tasks

QuotaTaskEdit(i, edited, rejects) ==
    LET task == saveEdit(Shown[i], edited, now)
        merged(old) == Merge(old, task, now)
    IN  /\ validateForm(edited)
        /\ Write("handleTaskEdit", task.id,
                 handleTaskEdit(view, storage, tasks, task, now),
                 LocalList(task.id, merged), rejects)

QuotaTaskDelete(i, rejects) ==
    Write("handleTaskDelete", Shown[i].id,
          handleTaskDelete(storage, Shown[i]), tasks, rejects)

QuotaStatusChange(i, newStatus, rejects) ==
    LET set(old) == [old EXCEPT !.status = newStatus, !.updatedAt = Date(now)]
    IN  Write("handleStatusChange", Shown[i].id,
              handleStatusChange(view, storage, tasks, Shown[i], newStatus, now),
              LocalList(Shown[i].id, set), rejects)

QuotaSubmit(id, form, tick, rejects) ==
    /\ view \in Views
    /\ Len(loadTasks(storage)) < MaxTasks
    /\ \A i \in DOMAIN loadTasks(storage) : loadTasks(storage)[i].id # id
    /\ Write("submit", id, submit(storage, id, form, now, now + tick),
             tasks, rejects)

\* KanbanBoard onEnd writes twice: its own save, then the save of the
\* view's handleStatusChange on 'status-change'.  Its try/catch takes an
\* error of its own save; an error of the view's handler is taken by that
\* catch or by the event dispatch before it, so that 'tasks-updated' and
\* the reload may or may not follow.
QuotaDrop(i, toKey, rejected, reloads) ==
    LET saved == onEndSave(storage, Shown[i].id, toKey, now)
        idx == FindIndex(loadTasks(saved), Shown[i].id)
        parent == handleStatusChange(view, saved, tasks,
                                     loadTasks(saved)[idx], toKey, now)
        set(old) == [old EXCEPT !.status = toKey, !.updatedAt = Date(now)]
    IN  /\ ClockLeft
        /\ viewMode = "kanban"
        /\ view # "AllTasks"
        /\ saved # storage
        /\ rejected = "second" => parent # saved
        /\ storage' = CASE rejected = "first" -> setItem(storage, saved, TRUE)
                         [] rejected = "second" -> setItem(saved, parent, TRUE)
                         [] OTHER -> setItem(saved, parent, FALSE)
        /\ tasks' = CASE rejected = "first" -> tasks
                       [] rejected = "second" ->
                            IF reloads THEN Reload(storage', filter)
                            ELSE LocalList(Shown[i].id, set)
                       [] OTHER -> Reload(storage', filter)
        /\ rejected # "second" => reloads
        /\ lastOp' = Attempt("onEnd", Shown[i].id,
                             IF rejected = "second" THEN saved ELSE storage,
                             rejected # "none")
        /\ now' = Later
        /\ UNCHANGED <<view, controls, cards, tabs, modal>>

InitQuota == Init

NextQuota ==
    \/ \E v \in Views : Mount(v)
    \/ \E mode \in {"list", "kanban"} : OnUpdateView(mode)
    \/ \E i \in DOMAIN Shown : \E edited \in EditForms(Shown[i]) :
          \E rejects \in BOOLEAN : QuotaTaskEdit(i, edited, rejects)
    \/ \E i \in DOMAIN Shown : \E rejects \in BOOLEAN :
          QuotaTaskDelete(i, rejects)
    \/ \E i \in DOMAIN Shown : \E st \in StatusChoices :
          \E rejects \in BOOLEAN : QuotaStatusChange(i, st, rejects)
    \/ \E id \in NewIds : \E form \in CreateForms : \E tick \in ClockTicks :
          \E rejects \in BOOLEAN : QuotaSubmit(id, form, tick, rejects)
    \/ \E i \in DOMAIN Shown : \E st \in StatusChoices :
          \E rejected \in {"none", "first", "second"} :
             \E reloads \in BOOLEAN : QuotaDrop(i, st, rejected, reloads)

SpecQuota == InitQuota /\ [][NextQuota]_vars

\* the last handler had a write rejected
Rejected == "threw" \in DOMAIN lastOp /\ lastOp.threw

----------------------------------------------------------------------------
(* Two tabs on the same origin: each runs its handlers to completion, and  *)
(* the two share the 'tasks' item.  A handler's loadTasks and saveAllTasks *)
(* are two accesses of the storage, and the other tab may write between    *)
(* them; no view listens to the 'storage' event.                            *)

Tabs == {"A", "B"}

\* the id randomUUID gives to the task a tab creates
TabIds == [t \in Tabs |-> IF t = "A" THEN <<"4">> ELSE <<"5">>]

\* the calls a tab can make: addTask from the create form, and
\* useTaskManagement handleStatusChange from a card
TabCalls(t) ==
    {[op |-> "addTask",
      task |-> newTask(TabIds[t], <<"a">>, [date |-> 2], <<>>, now, now)]}
    \cup {[op |-> "handleStatusChange", task |-> task, newStatus |-> st] :
             task \in SeedTasks, st \in StatusChoices}

\* no handler is running in the tab, which has run `done` of them
Idle(done) == [pc |-> "idle", done |-> done]

\* a save that starts from what is stored at the time of the save
ModifiedFromStored(call, all, stored) ==
    IF call.op = "addTask"
    THEN Append(stored, call.task)
    ELSE LET idx == FindIndex(stored, call.task.id)
         IN  IF idx # 0
             THEN SetStatus(stored, idx, call.newStatus, now)
             ELSE stored

\* the list the handler passes to saveAllTasks: the list `all` it loaded,
\* with the task pushed or with the status set; `stored`, the list stored
\* by now, is not read again
Modified(call, all, stored) ==
    IF call.op = "addTask"
    THEN Append(all, call.task)
    ELSE LET idx == FindIndex(all, call.task.id)
         IN  IF idx # 0
             THEN SetStatus(all, idx, call.newStatus, now)
             ELSE all

InitTabs ==
    /\ modal = Closed
    /\ storage \in {NoItem} \cup SeedBlobs
    /\ view = "none"
    /\ tasks = <<>>
    /\ filter = [searchTerm |-> undefined, status |-> undefined]
    /\ activeFilter = AllFilter
    /\ sortBy = "deadline"
    /\ sortOrder = "asc"
    /\ viewMode = "list"
    /\ dateFilter = "all"
    /\ now = StartTime
    /\ cards = <<>>
    /\ tabs = [t \in Tabs |-> Idle(0)]
    /\ lastOp = [op |-> "init"]

\* the first half of a handler: loadTasks()
TabLoad(t, call) ==
    /\ tabs[t].pc = "idle"
    /\ tabs[t].done < MaxOps
    /\ call.op = "addTask" => Len(loadTasks(storage)) < MaxTasks
    /\ tabs' = [tabs EXCEPT ![t] = [pc |-> "loaded", done |-> tabs[t].done,
                                    call |-> call, saw |-> storage,
                                    all |-> loadTasks(storage),
                                    others |-> {}]]
    /\ UNCHANGED <<storage, view, tasks, controls, now, cards, lastOp, modal>>

\* the second half: saveAllTasks of the modified list, or the return of
\* handleStatusChange when the task was not found
TabSave(t) ==
    LET frame == tabs[t]
        found == frame.call.op = "addTask"
                 \/ FindIndex(frame.all, frame.call.task.id) # 0
        noted(u) == IF u # t /\ tabs[u].pc = "loaded" /\ found
                    THEN [tabs[u] EXCEPT !.others = @ \cup {t}]
                    ELSE tabs[u]
    IN  /\ frame.pc = "loaded"
        /\ storage' = IF found
                      THEN saveAllTasks(Modified(frame.call, frame.all,
                                                 loadTasks(storage)))
                      ELSE storage
        /\ tabs' = [u \in Tabs |-> IF u = t THEN Idle(frame.done + 1)
                                   ELSE noted(u)]
        /\ lastOp' = [op |-> frame.call.op, tab |-> t, call |-> frame.call,
                      loaded |-> frame.saw, before |-> storage,
                      others |-> frame.others, wrote |-> found]
        /\ UNCHANGED <<view, tasks, controls, now, cards, modal>>

NextTabs ==
    \/ \E t \in Tabs : \E call \in TabCalls(t) : TabLoad(t, call)
    \/ \E t \in Tabs : TabSave(t)

SpecTabs == InitTabs /\ [][NextTabs]_vars

\* the last step was a tab's save
TabWrote == "wrote" \in DOMAIN lastOp /\ lastOp.wrote

\* the ids the other tab had stored between the load and the save of the
\* last writer
AddedMeanwhile == IdSet(lastOp.before) \ IdSet(lastOp.loaded)

\* C19: two tabs sharing 'tasks' are not coordinated.  What is stored
\* after a tab's save is what that tab wrote from its own load: the ids it
\* loaded, followed by the added id for an add, so that a task the other
\* tab stored between that load and that save is lost; and what is stored
\* changes between a handler's load and its save only by the other tab,
\* never by a handler of the same tab.
C19_LastWriterWins ==
    TabWrote =>
        /\ IdSeq(storage) = IF lastOp.op = "addTask"
                            THEN Append(IdSeq(lastOp.loaded), lastOp.call.task.id)
                            ELSE IdSeq(lastOp.loaded)
        /\ AddedMeanwhile \cap IdSet(storage) = {}
        /\ lastOp.before # lastOp.loaded
             => lastOp.others # {} /\ lastOp.tab \notin lastOp.others

\* a lost update: a tab saved a list that lacks the task the other tab
\* had added since the first tab's load
C19_Witness ==
    /\ TabWrote
    /\ AddedMeanwhile # {}
    /\ AddedMeanwhile \cap IdSet(storage) = {}
    /\ lastOp.others = Tabs \ {lastOp.tab}

----------------------------------------------------------------------------
(* The controls: FiltersBar, HeaderControls and TaskCard rendered with     *)
(* given props, the user acting on one control at a time.  What a          *)
(* component emits is a list of events, each with its payload.             *)

\* a string that is one of a few fixed words ('soon', 'kanban', 'asc')
Word(w) == [word |-> w]

Event(name, payload) == [event |-> name, payload |-> payload]

\* the value attributes of the options of the three selects
StatusOptions == {"all", "0", "1", "2", "3"}
DateOptions == {"all", "overdue", "today", "soon", "future"}
SortOptions ==
    {<<by, "|", order>> : by \in {"deadline", "createdAt", "updatedAt"},
                          order \in {"asc", "desc"}}

\* Number(val) of the decimal numeral val
Number(val) == CHOOSE n \in 0..9 : ToString(n) = val

\* val.split(sep) of a string given as its pieces and separators
RECURSIVE split(_, _)
split(val, sep) ==
    IF \A i \in DOMAIN val : val[i] # sep THEN <<val>>
    ELSE LET at == CHOOSE i \in DOMAIN val :
                      val[i] = sep /\ \A j \in 1..(i - 1) : val[j] # sep
         IN  <<SubSeq(val, 1, at - 1)>>
                 \o split(SubSeq(val, at + 1, Len(val)), sep)

\* the string whose pieces are joined
Joined(pieces) == IF Len(pieces) = 1 THEN pieces[1] ELSE pieces

\* FiltersBar setStatus
setStatus(status) == <<Event("update:activeFilter", status)>>

\* a select handler that emits the option's value as it is, a string
onStatusSelectRaw(val) == <<Event("update:activeFilter", Word(val))>>

\* FiltersBar onStatusSelect
onStatusSelect(val) ==
    <<Event("update:activeFilter",
            IF val = "all" THEN AllFilter ELSE Num(Number(val)))>>

\* FiltersBar updateSortCombined
updateSortCombined(val) ==
    LET parts == split(val, "|")
    IN  <<Event("update:sortBy", Word(Joined(parts[1]))),
          Event("update:sortOrder", Word(Joined(parts[2])))>>

\* FiltersBar onDateSelect
onDateSelect(val) == <<Event("update:dateFilter", Word(val))>>

\* HeaderControls clearDate
clearDate == <<Event("update:dateFilter", Word("all"))>>

\* an input handler that emits what was typed last
onSearchTyped(value, typed) == <<Event("update:search", Str(typed))>>

\* HeaderControls onSearch: e.target.value is the text of the input box
\* after the key was typed
onSearch(value, typed) == <<Event("update:search", Str(value))>>

\* the click listeners from the clicked element of a TaskCard up to the
\* card, none of which stops the click
cardListenersNoStop(target) ==
    CASE target = "edit-btn" ->
            <<[emits |-> "edit", stop |-> FALSE],
              [emits |-> "click", stop |-> FALSE]>>
      [] target = "delete-btn" ->
            <<[emits |-> "delete", stop |-> FALSE],
              [emits |-> "click", stop |-> FALSE]>>
      [] OTHER -> <<[emits |-> "click", stop |-> FALSE]>>

\* the click listeners from the clicked element of a TaskCard up to the
\* card: @click.stop on the two buttons, @click on the card
cardListeners(target) ==
    CASE target = "edit-btn" ->
            <<[emits |-> "edit", stop |-> TRUE],
              [emits |-> "click", stop |-> FALSE]>>
      [] target = "delete-btn" ->
            <<[emits |-> "delete", stop |-> TRUE],
              [emits |-> "click", stop |-> FALSE]>>
      [] OTHER -> <<[emits |-> "click", stop |-> FALSE]>>

\* a click bubbles through the listeners until one stops it
RECURSIVE bubble(_, _)
bubble(listeners, task) ==
    IF listeners = <<>> THEN <<>>
    ELSE <<Event(Head(listeners).emits, task)>>
             \o (IF Head(listeners).stop THEN <<>>
                 ELSE bubble(Tail(listeners), task))

CardTargets == {"task-card", "task-title", "edit-btn", "delete-btn"}
SearchKeys == {"a", " "}

\* the components are rendered with any props
InitControls ==
    /\ modal = Closed
    /\ storage = NoItem
    /\ view = "none"
    /\ tasks \in {<<t>> : t \in SeedTasks}
    /\ filter = [searchTerm |-> Str(<<>>), status |-> undefined]
    /\ activeFilter \in {AllFilter} \cup {Num(st) : st \in Status \ {ARCHIVED}}
    /\ sortBy \in SortFields
    /\ sortOrder \in {"asc", "desc"}
    /\ viewMode \in {"list", "kanban"}
    /\ dateFilter \in DateFilters
    /\ now = StartTime
    /\ cards = <<>>
    /\ tabs = OneTab
    /\ lastOp = [op |-> "init"]

\* what is remembered of the user's action: the control, what was picked
\* and the events the component emitted
Acted(control, input, emitted) ==
    /\ lastOp' = [op |-> control, input |-> input, emitted |-> emitted]
    /\ UNCHANGED <<storage, view, tasks, activeFilter, sortBy, sortOrder,
                   viewMode, dateFilter, now, cards, tabs, modal>>

\* a status button (statusMode 'buttons', shown outside the kanban mode)
StatusButton(status) ==
    /\ viewMode # "kanban"
    /\ Acted("status-button", status, setStatus(status))
    /\ UNCHANGED filter

\* the status select (statusMode 'dropdown')
StatusSelect(val) ==
    /\ viewMode # "kanban"
    /\ Acted("status-select", val, onStatusSelect(val))
    /\ UNCHANGED filter

\* the sort select
SortSelect(val) ==
    /\ Acted("sort-select", val, updateSortCombined(val))
    /\ UNCHANGED filter

\* the date select, shown in the kanban mode
DateSelect(val) ==
    /\ viewMode = "kanban"
    /\ Acted("date-select", val, onDateSelect(val))
    /\ UNCHANGED filter

\* the date badge of a header with a title icon
DateBadge ==
    /\ dateFilter # "all"
    /\ Acted("date-badge", dateFilter, clearDate)
    /\ UNCHANGED filter

\* a view toggle button: $emit('update:view', mode)
ViewToggle(mode) ==
    /\ Acted("view-toggle", mode, <<Event("update:view", Word(mode))>>)
    /\ UNCHANGED filter

\* a key typed at the end of the search box, whose text the parent binds
\* back through the search prop
SearchInput(key) ==
    LET value == filter.searchTerm.str \o <<key>>
    IN  /\ Len(filter.searchTerm.str) < MaxText
        /\ filter' = [filter EXCEPT !.searchTerm = Str(value)]
        /\ Acted("search-input", [before |-> filter.searchTerm.str, key |-> key],
                 onSearch(value, <<key>>))

\* a click on an element of the card
CardClick(target) ==
    /\ Acted("card", target, bubble(cardListeners(target), tasks[1]))
    /\ UNCHANGED filter

NextControls ==
    \/ \E status \in {AllFilter} \cup {Num(st) : st \in Status \ {ARCHIVED}} :
          StatusButton(status)
    \/ \E val \in StatusOptions : StatusSelect(val)
    \/ \E val \in SortOptions : SortSelect(val)
    \/ \E val \in DateOptions : DateSelect(val)
    \/ DateBadge
    \/ \E mode \in {"list", "kanban"} : ViewToggle(mode)
    \/ \E key \in SearchKeys : SearchInput(key)
    \/ \E target \in CardTargets : CardClick(target)

SpecControls == InitControls /\ [][NextControls]_vars

\* C22: each FiltersBar control emits exactly the update event of its own
\* setting with the selected value: a status button or option emits
\* update:activeFilter with the numeric status id or 'all', the date select
\* update:dateFilter with the bucket, and a sort option 'field|order'
\* update:sortBy with the field followed by update:sortOrder with the order.
C22_FiltersBarEmits ==
    /\ lastOp.op = "status-button"
       => lastOp.emitted = <<Event("update:activeFilter", lastOp.input)>>
    /\ lastOp.op = "status-select"
       => \E v \in {AllFilter} \cup {Num(n) : n \in 0..3} :
             /\ lastOp.emitted = <<Event("update:activeFilter", v)>>
             /\ v = AllFilter <=> lastOp.input = "all"
             /\ v # AllFilter => ToString(v.num) = lastOp.input
    /\ lastOp.op = "date-select"
       => lastOp.emitted = <<Event("update:dateFilter", Word(lastOp.input))>>
    /\ lastOp.op = "sort-select"
       => lastOp.emitted = <<Event("update:sortBy", Word(lastOp.input[1])),
                             Event("update:sortOrder", Word(lastOp.input[3]))>>

\* the option 'createdAt|desc' was picked in the sort select
C22_Witness ==
    /\ lastOp.op = "sort-select"
    /\ lastOp.input = <<"createdAt", "|", "desc">>
    /\ Len(lastOp.emitted) = 2
    /\ lastOp.emitted[2].payload = Word("desc")

\* C23: in HeaderControls the date badge, shown only while the date filter
\* is not 'all', emits update:dateFilter with 'all'; a view toggle emits
\* update:view with its mode; typing in the search box emits update:search
\* with the full text of the box.
C23_HeaderControlsEmits ==
    /\ lastOp.op = "date-badge"
       => /\ lastOp.input # "all"
          /\ lastOp.emitted = <<Event("update:dateFilter", Word("all"))>>
    /\ lastOp.op = "view-toggle"
       => lastOp.emitted = <<Event("update:view", Word(lastOp.input))>>
    /\ lastOp.op = "search-input"
       => lastOp.emitted =
            <<Event("update:search",
                    Str(lastOp.input.before \o <<lastOp.input.key>>))>>

\* a second key was typed in the search box
C23_Witness ==
    /\ lastOp.op = "search-input"
    /\ Len(lastOp.input.before) = 1
    /\ Len(lastOp.emitted[1].payload.str) = 2

\* C24: a click on the card emits exactly one 'click' with the card's
\* task; a click on the delete button emits exactly one 'delete' with the
\* card's task and no 'click'.
C24_CardEmits ==
    /\ lastOp.op = "card" /\ lastOp.input \in {"task-card", "task-title"}
       => lastOp.emitted = <<Event("click", tasks[1])>>
    /\ lastOp.op = "card" /\ lastOp.input = "delete-btn"
       => lastOp.emitted = <<Event("delete", tasks[1])>>

\* the delete button of a card was clicked
C24_Witness ==
    /\ lastOp.op = "card"
    /\ lastOp.input = "delete-btn"
    /\ lastOp.emitted # <<>>
    /\ lastOp.emitted[1].event = "delete"

----------------------------------------------------------------------------
(* The task modal: the view's handleTaskClick, openEditModal and           *)
(* handleCloseModal with its 300 ms timer, and TaskModal's edit form.      *)
(* selectedTask is one of the objects of the view's list, kept here as its *)
(* position in `tasks`; the form's tags are the array of the task the form *)
(* was started on, kept here as that task's position in `editedOf`.        *)

TagChoices == {0, 1}

\* toggleEditedTag on the array arr: push the tag, or splice it out
toggleEditedTag(arr, tag) ==
    IF IsUndefined(arr) THEN Arr(<<Num(tag)>>)
    ELSE LET at == {i \in DOMAIN arr.arr : arr.arr[i] = Num(tag)}
             first == CHOOSE i \in at : \A j \in at : i <= j
         IN  IF at = {} THEN Arr(Append(arr.arr, Num(tag)))
             ELSE Arr(SubSeq(arr.arr, 1, first - 1)
                          \o SubSeq(arr.arr, first + 1, Len(arr.arr)))

\* TaskModal is rendered: v-if="isOpen && task"
ModalShown == modal.isModalOpen /\ modal.selectedTask # 0

\* the view's refs other than the modal's and the list
ModalFrame ==
    <<storage, view, filter, activeFilter, sortBy, sortOrder, viewMode,
      dateFilter, now, cards, tabs>>

InitModal == Init

\* the router mounts the first view
MountFirst(v) == view = "none" /\ Mount(v)

\* a card is clicked while no modal covers the list
HandleTaskClick(i) ==
    /\ ~ModalShown
    /\ modal' = [modal EXCEPT !.selectedTask = i, !.isModalOpen = TRUE]
    /\ UNCHANGED <<ModalFrame, tasks, lastOp>>

\* the Edit button of a card
OpenEditModal(i) ==
    /\ ~ModalShown
    /\ modal' = [modal EXCEPT !.selectedTask = i, !.isModalOpen = TRUE,
                              !.selectedIsEdit = TRUE]
    /\ UNCHANGED <<ModalFrame, tasks, lastOp>>

\* TaskModal emits 'close': the modal is hidden and a timer is set
HandleCloseModal ==
    /\ ModalShown
    /\ modal.timers < MaxOps
    /\ modal' = [modal EXCEPT !.isModalOpen = FALSE, !.selectedIsEdit = FALSE,
                              !.timers = @ + 1]
    /\ UNCHANGED <<ModalFrame, tasks, lastOp>>

\* a timer set by handleCloseModal fires, 300 ms after it was set
TimerFires ==
    /\ modal.timers > 0
    /\ modal' = [modal EXCEPT !.selectedTask = 0, !.timers = @ - 1]
    /\ UNCHANGED <<ModalFrame, tasks, lastOp>>

\* TaskModal startEdit
StartEdit ==
    /\ ModalShown
    /\ ~modal.editing
    /\ modal' = [modal EXCEPT
                    !.editing = TRUE,
                    !.edited = [form |-> startEdit(tasks[modal.selectedTask]),
                                editedOf |-> modal.selectedTask]]
    /\ lastOp' = [op |-> "startEdit", tasks |-> tasks, storage |-> storage]
    /\ UNCHANGED <<ModalFrame, tasks>>

\* the title input of the form
EditTitle(title) ==
    /\ ModalShown
    /\ modal.editing
    /\ modal' = [modal EXCEPT !.edited.form.title = title]
    /\ lastOp' = [lastOp EXCEPT !.op = "editTitle"]
    /\ UNCHANGED <<ModalFrame, tasks>>

\* a tag button of the form: toggleEditedTag works on edited.tags, which
\* is the tags array of the task itself unless the task had none
ToggleEditedTag(tag) ==
    LET form == modal.edited.form
        of == modal.edited.editedOf
        shared == ~IsUndefined(form.tags) /\ of # 0
    IN  /\ ModalShown
        /\ modal.editing
        /\ modal' = [modal EXCEPT
                        !.edited.form.tags = toggleEditedTag(form.tags, tag),
                        !.edited.editedOf = IF shared THEN of ELSE 0]
        /\ tasks' = IF shared
                    THEN [tasks EXCEPT ![of].tags =
                                          toggleEditedTag(form.tags, tag)]
                    ELSE tasks
        /\ lastOp' = [lastOp EXCEPT !.op = "toggleEditedTag"]
        /\ UNCHANGED ModalFrame

\* TaskModal cancelEdit
CancelEdit ==
    /\ ModalShown
    /\ modal.editing
    /\ modal' = [modal EXCEPT !.editing = FALSE, !.edited = [null |-> TRUE]]
    /\ lastOp' = [lastOp EXCEPT !.op = "cancelEdit"]
    /\ UNCHANGED <<ModalFrame, tasks>>

NextModal ==
    \/ \E v \in Views : MountFirst(v)
    \/ \E i \in DOMAIN tasks : HandleTaskClick(i)
    \/ \E i \in DOMAIN tasks : OpenEditModal(i)
    \/ HandleCloseModal
    \/ TimerFires
    \/ StartEdit
    \/ \E title \in NewTitles : EditTitle(title)
    \/ \E tag \in TagChoices : ToggleEditedTag(tag)
    \/ CancelEdit

SpecModal == InitModal /\ [][NextModal]_vars

\* C26: cancelling an edit (startEdit, field changes and toggleEditedTag
\* calls, then cancelEdit) leaves the tasks of the view and the stored
\* collection with the field values they had before startEdit, tags
\* included.
C26_CancelRestores ==
    lastOp.op = "cancelEdit" =>
        tasks = lastOp.tasks /\ storage = lastOp.storage

\* C28: whenever isModalOpen is true selectedTask is not null, under any
\* interleaving of handleTaskClick, openEditModal, handleCloseModal and
\* the timer that handleCloseModal sets.
C28_OpenModalHasTask == modal.isModalOpen => modal.selectedTask # 0

----------------------------------------------------------------------------
(* The clock advances while a card stays on screen: its deadline status is *)
(* computed anew at each render                                            *)

ClockStart == 5 * DayMs

\* the clock is followed for six days
ClockEnd == ClockStart + 6 * DayMs

\* deadlines at and around the start of the fifth day after ClockStart,
\* and one in the middle of the second
ClockTasks ==
    {Task(<<"1">>, <<"a">>, undefined, st, Date(1000), Date(1000), deadline,
          Arr(<<>>)) :
        st \in Status,
        deadline \in {undefined} \cup
            {Date(ClockStart + off) :
                off \in {4 * DayMs, 4 * DayMs + 1, 4 * DayMs + Midday,
                         DayMs + Midday + 1}}}

\* every card computes its badge, and the modal its deadline status
Rendered(list, clock) ==
    [i \in DOMAIN list |->
        [status |-> getDeadlineStatus(list[i], clock),
         badge |-> deadlineStatus(list[i], clock)]]

InitClock ==
    /\ modal = Closed
    /\ tabs = OneTab
    /\ now = ClockStart
    /\ tasks \in {<<t>> : t \in ClockTasks}
    /\ storage = NoItem
    /\ view = "none"
    /\ filter = [searchTerm |-> undefined, status |-> undefined]
    /\ activeFilter = AllFilter
    /\ sortBy = "deadline"
    /\ sortOrder = "asc"
    /\ viewMode = "list"
    /\ dateFilter = "all"
    /\ cards = Rendered(tasks, now)
    /\ lastOp = [op |-> "render", first |-> cards]

\* time passes and the cards are rendered again: by a millisecond just
\* after midnight and midday, by half a day or by a day otherwise
Advance(step) ==
    /\ now + step <= ClockEnd
    /\ step = 1 => (now - ClockStart) % Midday < 2
    /\ now' = now + step
    /\ cards' = Rendered(tasks, now')
    /\ UNCHANGED <<storage, view, tasks, controls, tabs, modal, lastOp>>

NextClock == \E step \in {1, Midday, DayMs} : Advance(step)

SpecClock == InitClock /\ [][NextClock]_vars

\* the place of a deadline status in the order normal, soon, today, overdue
Rank(status) ==
    CASE status = Str("normal") -> 0
      [] status = Str("soon") -> 1
      [] status = Str("today") -> 2
      [] status = Str("overdue") -> 3

\* C30: for a task whose deadline and status (TODO or IN_PROGRESS) stay
\* unchanged, as now advances the classifier's bucket only moves forward
\* in the order normal, soon, today, overdue.
C30_BucketsOnlyAdvance ==
    [][\A i \in DOMAIN tasks :
          tasks[i].status \in {TODO, IN_PROGRESS}
          /\ ~IsUndefined(tasks[i].deadline)
          => Rank(cards'[i].status) >= Rank(cards[i].status)
      ]_vars

\* a card first rendered 'normal' is rendered 'overdue' days later
C30_Witness ==
    /\ tasks[1].status \in {TODO, IN_PROGRESS}
    /\ lastOp.op = "render"
    /\ lastOp.first[1].status = Str("normal")
    /\ cards[1].status = Str("overdue")
    /\ now > ClockStart

====
